---------------------------- MODULE Spec2Model ----------------------------
(***************************************************************************)
(* A model of the simulation core of nextbot-fps-prototype: the bunny-hop  *)
(* chain controller (BhopController), the player's locomotion step         *)
(* (Player), the grid pathfinder of main.js (findPath / simplifyPath) and  *)
(* the enemy behaviour state machine (Enemy).                              *)
(*                                                                         *)
(* Numbers.  The program computes in JavaScript doubles; the model uses    *)
(* fixed point.  Times are integers in milliseconds, comboMeter is in      *)
(* whole points, boosts and multipliers are in hundredths (1.2 is 120).    *)
(* Every division is a floor division.                                     *)
(*                                                                         *)
(* Wall clock.  Date.now() is about 1.7e12, so the program's tests         *)
(* "Date.now() - lastChainBrokenTime > 800" and "lastLandTime > 0" are     *)
(* modelled by ages (now minus the stored time) that saturate at AgeCap,   *)
(* and a flag hasLanded for lastLandTime > 0.                              *)
(***************************************************************************)
EXTENDS Integers, Sequences, FiniteSets, TLC

VARIABLES bhop, hist, player, used, nav, mover, agent, enemy,
          manager, game, route

vars == <<bhop, hist, player, used, nav, mover, agent, enemy,
         manager, game, route>>

\* The difficulty coordinator, the game loop and an enemy's route: each has
\* a specification of its own and rests in all the others.
rest == <<manager, game, route>>

\* What the chain controller on its own leaves alone.
notBhop == <<player, used, nav, mover, agent, enemy, rest>>

\* What the player leaves alone.
notPlayer == <<nav, mover, agent, enemy, rest>>

\* What the pathfinder leaves alone.
notNav == <<bhop, hist, player, used, mover, agent, enemy, rest>>

\* What the horizontal move of the player leaves alone.
notMover == <<bhop, hist, player, used, nav, agent, enemy, rest>>

\* What the enemies leave alone.
notEnemy == <<bhop, hist, player, nav, mover, rest>>

Min(a, b) == IF a < b THEN a ELSE b
Max(a, b) == IF a > b THEN a ELSE b

(***************************************************************************)
(* BhopController: constants (src/unnamed/part_009, constructor).          *)
(***************************************************************************)
BHOP_WINDOW == 450
PERFECT_BHOP_WINDOW == 150
RESET_GRACE == 100
BASE_BOOST == 120
MAX_BOOST == 250
PERFECT_BOOST_MULTIPLIER == 115
MAX_CHAIN_COUNT == 10
COMBO_MAX == 100
COMBO_PERFECT_GAIN == 15
COMBO_GOOD_GAIN == 10
COMBO_BREAK_PENALTY == 30
COMBO_RESET_PENALTY == 20
COMBO_BONUS_DIV == 1000
COMBO_DECAY_PER_SEC == 10
BOOST_DECAY_DIV == 2000
momentumLossRate == 85
momentumPreservationTime == 800
PRESERVE_MAX == 80
PRESERVE_BASE == 50
PRESERVE_PER_CHAIN == 5

\* Ages saturate here: an age of AgeCap stands for "AgeCap ms or more".
AgeCap == 1000

Age(a, ms) == Min(AgeCap, a + ms)

(***************************************************************************)
(* Player: constants (src/js/entities/Player.js, constructor).  Speeds are *)
(* in hundredths of a unit per second, accelerations in hundredths of a    *)
(* unit per second squared, heights in hundredths of a unit, timers in ms. *)
(***************************************************************************)
HEIGHT == 200
GRAVITY == 3000
JUMP_FORCE == 1200
WALK_SPEED == 600
RUN_SPEED == 1200
SPRINT_SPEED == 2000
MAX_SPEED == 4500
ACCELERATION == 8000
DECELERATION == 6000
SPRINT_ACCELERATION == 12000
WALK_ACCELERATION == 4000
AIR_ACCELERATION == 3000
AIR_DECELERATION == 1000
airControl == 80
airAccelerationBoost == 130
AIR_COMBO_DIV == 200
SLIDE_DURATION == 600
SLIDE_SPEED_BOOST == 130
SLIDE_COOLDOWN == 1000
SLIDE_HEIGHT_PCT == 60
SLIDE_MIN_SPEED_PCT == 80
SLIDE_DECEL_PCT == 30
KNOCKBACK_FORCE == 1500

\* The state of a Player right after init().
PlayerInit ==
    [ canJump |-> FALSE, isJumping |-> FALSE, y |-> HEIGHT, vy |-> 0,
      isSliding |-> FALSE, slideTimer |-> 0, slideCooldownTimer |-> 0,
      moving |-> FALSE, isSprinting |-> FALSE, isWalking |-> FALSE,
      currentSpeed |-> 0, targetSpeed |-> RUN_SPEED,
      currentAcceleration |-> ACCELERATION ]

\* An enemy's path request: the obstacles of the scene, the positions asked
\* for and the path returned; before any request the path is empty.
NavIdle(obs) ==
    [ obstacles |-> obs, requested |-> FALSE, startPos |-> <<0, 0>>,
      endPos |-> <<0, 0>>, path |-> << >> ]

\* The horizontal position of the player among the obstacles of the scene,
\* with a record of the last step: which routine made it (op), where it
\* started (from) and the displacement asked for (d).
MoverInit(obs) ==
    [ pos |-> <<-6, -6>>, obstacles |-> obs, op |-> "init", from |-> <<-6, -6>>,
      d |-> <<0, 0>> ]

\* No input has been given yet.
UsedInit ==
    [ jumps |-> 0, slides |-> 0, keys |-> 0, knockbacks |-> 0,
      disturbances |-> 0 ]

\* The repository holds two versions of class Enemy, and a game is built
\* with one of them: live says whether this version is the one running.
\* Times are milliseconds, lengths tenths of a world unit, the stuck counter
\* of the first version counts halves (avoidObstacle adds 0.5).
\*
\* The enemy of src/unnamed/part_012 after its constructor.  transitionAge
\* and recoveryAge are "now - stateTransitionTime" and
\* "now - stuckRecoveryTime"; positions and times are the two parallel
\* arrays stuckDetectionPositions and stuckDetectionTimes, the times kept as
\* ages.  op, entry and distanceToPlayer record the last update: the state
\* on entry to updateState and the distance it measured.  confinedChecks is
\* a history variable: the number of consecutive stuck-detection checks,
\* made in CHASE or FLANK, that found the enemy confined.  stillChecks and
\* createdAge are history variables too: the number of consecutive checks,
\* in whatever state, that found the enemy confined, and the time since the
\* constructor ran.
AgentInit(live) ==
    [ live |-> live, state |-> "SPAWN",
      transitionAge |-> 0, position |-> 0,
      positions |-> << >>, times |-> << >>,
      stuckCounter |-> 0, isStuck |-> FALSE, recoveryAge |-> 0,
      op |-> "init", entry |-> "SPAWN", distanceToPlayer |-> 0,
      confinedChecks |-> 0, stillChecks |-> 0, createdAge |-> 0 ]

\* The enemy of src/js/entities/Enemy.js after its constructor.
EnemyInit(live) ==
    [ live |-> live, state |-> "IDLE", position |-> 0, lastPosition |-> 0,
      stuckCounter |-> 0,
      op |-> "init", entry |-> "IDLE", distanceToPlayer |-> 0 ]

\* The difficulty fields of an EntityManager after its constructor, with the
\* bhopStats of a fresh BhopController.  Levels are in LevelUnit-ths; the
\* skill is the fraction skill[1] / skill[2].
LevelUnit == 1200

ManagerInit ==
    [ difficultyLevel |-> LevelUnit, playerBhopSkill |-> <<0, 1>>,
      totalJumps |-> 0, successfulBhops |-> 0, perfectBhops |-> 0,
      totalTiming |-> 0,
      op |-> "init", before |-> LevelUnit ]

\* The time scale 1, in the unit of time scales (1/8000), in which the scale
\* of every frame of the slow motion of a hit is a whole number.
ScaleUnit == 8000

\* A SlowMotionManager after its constructor (times in ms), and the step
\* times of the last tick of the game loop: rawDelta in ms, delta (handed to
\* Player.update and by it to BhopController.update) and enemyDelta (used by
\* Enemy.update) in ms / ScaleUnit.
GameInit ==
    [ timeScale |-> ScaleUnit, initialSlowMoScale |-> ScaleUnit,
      slowMoDuration |-> 0, slowMoTimer |-> 0, rawDelta |-> 0, delta |-> 0,
      enemyDelta |-> 0, op |-> "init" ]

\* The state and the path fields of an enemy after its constructor; plan
\* numbers the paths the enemy was given.
RouteInit ==
    [ state |-> "SPAWN", currentPath |-> << >>, currentPathIndex |-> 0,
      hasReachedTarget |-> FALSE, plan |-> 0, op |-> "init" ]

AtRest ==
    /\ manager = ManagerInit
    /\ game = GameInit
    /\ route = RouteInit

\* The state of a BhopController right after its constructor.
BhopInit ==
    [ hasLanded |-> FALSE, sinceLand |-> AgeCap, sinceBroken |-> AgeCap,
      timerPending |-> FALSE, timers |-> << >>, isBhopping |-> FALSE, chainCount |-> 0,
      comboMeter |-> 0, currentBoost |-> BASE_BOOST,
      lastJumpQuality |-> "NONE" ]

\* A variant whose combo bonus is ten times too strong (combo / 100).
ChainBoost_StrongCombo(chain, perfect, combo) ==
    LET baseBoostFactor ==
            BASE_BOOST + ((MAX_BOOST - BASE_BOOST) * chain) \div MAX_CHAIN_COUNT
        perfectFactor == IF perfect THEN PERFECT_BOOST_MULTIPLIER ELSE 100
    IN  (baseBoostFactor * perfectFactor * (100 + combo)) \div (100 * 100)

\* handleJump, lines 156-166: the boost of a chained hop.
ChainBoost(chain, perfect, combo) ==
    LET baseBoostFactor ==
            BASE_BOOST + ((MAX_BOOST - BASE_BOOST) * chain) \div MAX_CHAIN_COUNT
        perfectFactor == IF perfect THEN PERFECT_BOOST_MULTIPLIER ELSE 100
    IN  (baseBoostFactor * perfectFactor * (COMBO_BONUS_DIV + combo))
            \div (100 * COMBO_BONUS_DIV)

\* A variant that forgets the timing window.
JumpChains_NoWindow(b) == b.hasLanded

\* handleJump, line 127: is this jump chained?
JumpChains(b) == b.hasLanded /\ b.sinceLand <= BHOP_WINDOW

\* A variant whose perfect window is a third as wide.
IsPerfectTiming_Narrow(b) == b.sinceLand <= PERFECT_BHOP_WINDOW \div 3

\* handleJump, line 129.
IsPerfectTiming(b) == b.sinceLand <= PERFECT_BHOP_WINDOW

\* A variant that forgets the cap of the chain count.
ChainedCount_NoCap(b) == b.chainCount + 1

\* handleJump, line 135.
ChainedCount(b) == Min(MAX_CHAIN_COUNT, b.chainCount + 1)

\* A variant that forgets the cap of the combo meter.
ChainedCombo_NoCap(b) ==
    b.comboMeter +
        (IF b.sinceLand <= PERFECT_BHOP_WINDOW THEN COMBO_PERFECT_GAIN
                                               ELSE COMBO_GOOD_GAIN)

\* handleJump, line 153.
ChainedCombo(b) ==
    Min(COMBO_MAX, b.comboMeter +
            (IF IsPerfectTiming(b) THEN COMBO_PERFECT_GAIN ELSE COMBO_GOOD_GAIN))

\* handleJump, lines 183-191: the boost kept when a chain breaks.
BrokenBoost(b) ==
    IF b.chainCount > 0
    THEN LET preservationFactor ==
                 Min(PRESERVE_MAX, PRESERVE_BASE + PRESERVE_PER_CHAIN * b.chainCount)
         IN  BASE_BOOST +
               ((b.currentBoost - BASE_BOOST) * momentumLossRate * preservationFactor)
                  \div 10000
    ELSE b.currentBoost

\* handleJump, line 193: the quality shown after a jump that chains nothing.
FailedQuality == "NONE"

\* clearResetTimers() as a handler that drops its handle and leaves the
\* timeout itself scheduled.
ClearResetTimers_Forget(b) ==
    [ b EXCEPT !.timerPending = FALSE ]

\* clearResetTimers(), line 222-227: the timeout that resetTimer refers to is
\* cancelled.  timers holds the age (ms) of every timeout that is scheduled
\* and has not run, oldest first; timerPending says that resetTimer refers to
\* the youngest of them.
ClearResetTimers(b) ==
    [ b EXCEPT
        !.timerPending = FALSE,
        !.timers = IF b.timerPending THEN SubSeq(@, 1, Len(@) - 1) ELSE @ ]

\* handleJump(jumpTime) with jumpTime = the current time.
HandleJump(b) ==
    IF JumpChains(b)
    THEN [ ClearResetTimers(b) EXCEPT
             !.lastJumpQuality = IF IsPerfectTiming(b) THEN "PERFECT" ELSE "GOOD",
             !.chainCount = ChainedCount(b),
             !.comboMeter = ChainedCombo(b),
             !.currentBoost =
                 ChainBoost(ChainedCount(b), IsPerfectTiming(b), ChainedCombo(b)),
             !.isBhopping = TRUE ]
    ELSE [ ClearResetTimers(b) EXCEPT
             !.sinceBroken = IF b.chainCount > 0 THEN 0 ELSE b.sinceBroken,
             !.currentBoost = BrokenBoost(b),
             !.lastJumpQuality = FailedQuality,
             !.isBhopping = FALSE,
             !.chainCount = 0,
             !.comboMeter = Max(0, b.comboMeter - COMBO_BREAK_PENALTY) ]

\* handleLanding(landTime) with landTime = the current time: the landing is
\* recorded and the reset timer is replaced by a fresh one.
HandleLanding(b) ==
    [ ClearResetTimers(b) EXCEPT
        !.hasLanded = TRUE, !.sinceLand = 0, !.timerPending = TRUE,
        !.timers = Append(@, 0) ]

\* The delay of the reset timer, handleLanding line 216.
ResetDelay == BHOP_WINDOW + RESET_GRACE

\* The oldest scheduled timeout has reached its delay.
TimeoutDue(b) == Len(b.timers) > 0 /\ b.timers[1] >= ResetDelay

\* The timeout that runs leaves the set of scheduled ones.
TimeoutTaken(b) ==
    [ b EXCEPT
        !.timers = Tail(@),
        !.timerPending = IF Len(b.timers) = 1 THEN FALSE ELSE @ ]

\* resetBhop, line 238-241: what a timeout leaves of the chain.
ResetQuality(b) == b.lastJumpQuality

\* resetBhop().
ResetBhop(b) ==
    LET broken == IF b.isBhopping THEN 0 ELSE b.sinceBroken
    IN  [ b EXCEPT
            !.sinceBroken = broken,
            !.isBhopping = FALSE,
            !.chainCount = 0,
            !.lastJumpQuality = ResetQuality(b),
            !.comboMeter = Max(0, b.comboMeter - COMBO_RESET_PENALTY),
            !.currentBoost = IF broken > momentumPreservationTime
                             THEN BASE_BOOST ELSE b.currentBoost ]

\* update(delta) as a handler that leaves the combo meter alone.
DecayedCombo_Kept(b, dt) == b.comboMeter

\* update(delta), lines 260-262, delta = dt ms.
DecayedCombo(b, dt) ==
    IF b.comboMeter > 0 /\ ~b.isBhopping
    THEN Max(0, b.comboMeter - (COMBO_DECAY_PER_SEC * dt) \div 1000)
    ELSE b.comboMeter

\* update(delta) as a handler that does not wait for the momentum
\* preservation time.
DecayedBoost_NoGrace(b, dt) ==
    IF ~b.isBhopping /\ b.currentBoost > BASE_BOOST
    THEN Max(BASE_BOOST,
             b.currentBoost - ((b.currentBoost - BASE_BOOST) * dt) \div BOOST_DECAY_DIV)
    ELSE b.currentBoost

\* update(delta), lines 265-275.
DecayedBoost(b, dt) ==
    IF ~b.isBhopping /\ b.currentBoost > BASE_BOOST
       /\ b.sinceBroken > momentumPreservationTime
    THEN Max(BASE_BOOST,
             b.currentBoost - ((b.currentBoost - BASE_BOOST) * dt) \div BOOST_DECAY_DIV)
    ELSE b.currentBoost

\* update(delta).
BhopUpdate(b, dt) ==
    [ b EXCEPT !.comboMeter = DecayedCombo(b, dt),
               !.currentBoost = DecayedBoost(b, dt) ]

\* The wall clock moves on by ms.
BhopElapse(b, ms) ==
    [ b EXCEPT !.sinceLand = Age(b.sinceLand, ms),
               !.sinceBroken = Age(b.sinceBroken, ms),
               !.timers = [ i \in DOMAIN @ |-> Age(@[i], ms) ] ]

(***************************************************************************)
(* The chain controller alone, driven by any sequence of its calls.        *)
(***************************************************************************)
\* Frame times (ms) the controller's update is called with.
FrameDeltas == {0, 500}
\* Wall-clock time (ms) that passes between two calls.
ElapseSteps == {150}

\* hist records the call that led to the state: op, and for a jump whether it
\* chained and its delta (jump time minus last landing time), for an update of
\* the controller alone its step time as delta; ev is the most recent of the
\* chain events jump, land and reset.
HistInit == [ op |-> "init", ev |-> "none", chained |-> FALSE, delta |-> 0 ]

Hist(op, ev) == [ op |-> op, ev |-> ev, chained |-> FALSE, delta |-> 0 ]

InitBhop ==
    /\ bhop = BhopInit
    /\ hist = HistInit
    /\ player = PlayerInit
    /\ used = UsedInit
    /\ nav = NavIdle({})
    /\ mover = MoverInit({})
    /\ agent = AgentInit(FALSE)
    /\ enemy = EnemyInit(FALSE)
    /\ AtRest

\* player.jump() reaching handleJump.
BhopJump ==
    /\ bhop' = HandleJump(bhop)
    /\ hist' = [ op |-> "jump", ev |-> "jump", chained |-> JumpChains(bhop),
                 delta |-> bhop.sinceLand ]
    /\ UNCHANGED notBhop

\* player.handleLanding() reaching handleLanding.
BhopLand ==
    /\ bhop' = HandleLanding(bhop)
    /\ hist' = Hist("land", "land")
    /\ UNCHANGED notBhop

\* The reset timer fires, no earlier than its delay after the landing.
BhopTimer ==
    /\ TimeoutDue(bhop)
    /\ bhop' = TimeoutTaken(ResetBhop(bhop))
    /\ hist' = Hist("reset", "reset")
    /\ UNCHANGED notBhop

\* update(delta) is called.
BhopFrame ==
    \E dt \in FrameDeltas :
        /\ bhop' = BhopUpdate(bhop, dt)
        /\ hist' = [ Hist("update", hist.ev) EXCEPT !.delta = dt ]
        /\ UNCHANGED notBhop

\* Time passes.
BhopWait ==
    \E ms \in ElapseSteps :
        /\ bhop' = BhopElapse(bhop, ms)
        /\ hist' = Hist("wait", hist.ev)
        /\ UNCHANGED notBhop

NextBhop == BhopJump \/ BhopLand \/ BhopTimer \/ BhopFrame \/ BhopWait

SpecBhop == InitBhop /\ [][NextBhop]_vars

(***************************************************************************)
(* Properties of the chain controller.                                     *)
(***************************************************************************)

\* C1: in every reachable state of the chain controller comboMeter lies in
\* [0, 100] and currentBoost is at least BASE_BOOST.
C1_ComboAndBoostInRange ==
    /\ bhop.comboMeter >= 0
    /\ bhop.comboMeter <= COMBO_MAX
    /\ bhop.currentBoost >= BASE_BOOST

\* A chained hop that would push the meter past its cap leaves it at the cap.
C1_Witness ==
    /\ hist.op = "jump" /\ hist.chained
    /\ bhop.comboMeter = COMBO_MAX
    /\ bhop.chainCount = MAX_CHAIN_COUNT

\* C2: a jump later than BHOP_WINDOW after the last landing leaves
\* chainCount = 0, quality NONE and chaining inactive, and reports that no
\* hop was chained.
C2_LateJumpBreaksChain ==
    (hist.op = "jump" /\ hist.delta > BHOP_WINDOW) =>
        /\ bhop.chainCount = 0
        /\ bhop.lastJumpQuality = "NONE"
        /\ ~bhop.isBhopping
        /\ ~hist.chained

\* Scenario B: a jump 900 ms after a landing, breaking a running chain.
C2_Witness ==
    /\ hist.op = "jump" /\ hist.delta = 900
    /\ bhop.hasLanded
    /\ bhop.sinceBroken = 0
    /\ bhop.currentBoost > BASE_BOOST

\* The (chainCount, comboMeter) pairs a PERFECT hop can end in: a chain of c
\* hops has gained at least 10 points on each hop before the last and 15 on
\* the last.
PerfectOutcomes ==
    { o \in (1..MAX_CHAIN_COUNT) \X (0..COMBO_MAX) :
        o[2] >= Min(COMBO_MAX,
                    COMBO_GOOD_GAIN * (o[1] - 1) + COMBO_PERFECT_GAIN) }

\* C3: a jump with delta <= PERFECT_BHOP_WINDOW is graded PERFECT, and among
\* PERFECT hops the boost is strictly larger whenever chainCount is larger:
\* the hop ends in one of PerfectOutcomes, and its boost is strictly below
\* that of every outcome with a larger chainCount and strictly above that of
\* every outcome with a smaller one.
C3_PerfectBoostGrowsWithChain ==
    (hist.op = "jump" /\ hist.delta <= PERFECT_BHOP_WINDOW) =>
        /\ bhop.lastJumpQuality = "PERFECT"
        /\ <<bhop.chainCount, bhop.comboMeter>> \in PerfectOutcomes
        /\ \A o \in PerfectOutcomes :
              /\ o[1] > bhop.chainCount =>
                    ChainBoost(o[1], TRUE, o[2]) > bhop.currentBoost
              /\ o[1] < bhop.chainCount =>
                    ChainBoost(o[1], TRUE, o[2]) < bhop.currentBoost

\* A PERFECT third hop with the meter already full: the largest boost a
\* chain of three can give.
C3_Witness ==
    /\ hist.op = "jump" /\ hist.delta <= PERFECT_BHOP_WINDOW
    /\ bhop.chainCount = 3
    /\ bhop.comboMeter = COMBO_MAX

\* C10: when the reset timer of a landing has fired and no jump came since,
\* the chain is neutral: chaining inactive, chainCount = 0, quality NONE.
C10_TimeoutLeavesNeutral ==
    hist.ev = "reset" =>
        /\ ~bhop.isBhopping
        /\ bhop.chainCount = 0
        /\ bhop.lastJumpQuality = "NONE"

(***************************************************************************)
(* Player (src/js/entities/Player.js): movement state, jump, slide,        *)
(* landing, knockback and the per-frame update, with the player's own      *)
(* BhopController in bhop.                                                 *)
(***************************************************************************)

\* updateMovementState(), lines 150-165: the speed of the movement mode.
ModeSpeed(p) ==
    IF p.isSprinting THEN SPRINT_SPEED
    ELSE IF p.isWalking THEN WALK_SPEED ELSE RUN_SPEED

\* updateMovementState(), lines 150-165: the acceleration of the mode.
ModeAcceleration(p) ==
    IF p.isSprinting THEN SPRINT_ACCELERATION
    ELSE IF p.isWalking THEN WALK_ACCELERATION ELSE ACCELERATION

\* updateMovementState(), lines 168-170: the target speed under the boost.
BoostedTarget(p, b) ==
    IF b.isBhopping
    THEN Min((ModeSpeed(p) * b.currentBoost) \div 100, MAX_SPEED)
    ELSE ModeSpeed(p)

\* updateMovementState().
UpdateMovementState(p, b) ==
    IF p.isSliding
    THEN [ p EXCEPT !.currentAcceleration = ACCELERATION ]
    ELSE [ p EXCEPT !.targetSpeed = BoostedTarget(p, b),
                    !.currentAcceleration = ModeAcceleration(p) ]

\* setMovementFromInput(keyStates).
SetMovementFromInput(p, b, k) ==
    UpdateMovementState(
        [ p EXCEPT !.moving = k.moving, !.isSprinting = k.isSprinting,
                   !.isWalking = k.isWalking ], b)

\* jump(), lines 184-186: the jump is refused while sliding or in the air.
CanStartJump(p) == ~p.isSliding /\ p.canJump

\* jump(), lines 189-200, after bhopController.handleJump gave b.
Jump(p, b) ==
    UpdateMovementState(
        [ p EXCEPT !.vy = JUMP_FORCE, !.canJump = FALSE, !.isJumping = TRUE ], b)

\* startSlide(), lines 211-214.
CanStartSlide(p) ==
    /\ p.canJump /\ p.slideCooldownTimer <= 0 /\ ~p.isSliding
    /\ p.currentSpeed * 100 >= RUN_SPEED * SLIDE_MIN_SPEED_PCT

\* startSlide(), line 223.
SlideSpeed(p) == (p.currentSpeed * SLIDE_SPEED_BOOST) \div 100

\* startSlide(), lines 216-226.
StartSlide(p, b) ==
    UpdateMovementState(
        [ p EXCEPT !.isSliding = TRUE, !.slideTimer = SLIDE_DURATION,
                   !.y = (HEIGHT * SLIDE_HEIGHT_PCT) \div 100,
                   !.currentSpeed = SlideSpeed(p) ], b)

\* endSlide().
EndSlide(p, b) ==
    IF ~p.isSliding THEN p
    ELSE UpdateMovementState(
             [ p EXCEPT !.isSliding = FALSE, !.slideTimer = 0,
                        !.slideCooldownTimer = SLIDE_COOLDOWN, !.y = HEIGHT ], b)

\* applyKnockback(direction, force) with a horizontal direction: the upward
\* component force * 0.5 is added to the vertical velocity.
ApplyKnockback(p, force) == [ p EXCEPT !.vy = p.vy + force \div 2 ]

\* updateSpeed(delta), lines 363-375: the acceleration in effect.
EffectiveAcceleration(p, b) ==
    IF p.canJump THEN p.currentAcceleration
    ELSE IF b.isBhopping
         THEN (AIR_ACCELERATION * airAccelerationBoost * (AIR_COMBO_DIV + b.comboMeter))
                  \div (100 * AIR_COMBO_DIV)
         ELSE (AIR_ACCELERATION * airControl) \div 100

\* updateSpeed(delta), lines 364 and 382-386: the deceleration in effect.
EffectiveDeceleration(p) ==
    LET d == IF p.canJump THEN DECELERATION ELSE AIR_DECELERATION
    IN  IF p.isSliding THEN (d * SLIDE_DECEL_PCT) \div 100 ELSE d

\* updateSpeed(delta), delta = dt ms.
UpdateSpeed(p, b, dt) ==
    LET target == IF p.moving THEN p.targetSpeed ELSE 0
    IN  IF p.currentSpeed < target
        THEN Min(target, p.currentSpeed + (EffectiveAcceleration(p, b) * dt) \div 1000)
        ELSE IF p.currentSpeed > target
        THEN Max(target, p.currentSpeed - (EffectiveDeceleration(p) * dt) \div 1000)
        ELSE p.currentSpeed

\* update(delta), lines 292-302: the slide timer and the slide cooldown.
UpdateSlideTimers(p, b, dt) ==
    LET q == IF p.isSliding
             THEN IF p.slideTimer - dt <= 0
                  THEN EndSlide([ p EXCEPT !.slideTimer = p.slideTimer - dt ], b)
                  ELSE [ p EXCEPT !.slideTimer = p.slideTimer - dt ]
             ELSE p
    IN  IF q.slideCooldownTimer > 0
        THEN [ q EXCEPT !.slideCooldownTimer = q.slideCooldownTimer - dt ]
        ELSE q

\* checkGroundCollision(): does the player touch the ground?
TouchesGround(p) ==
    p.y < (IF p.isSliding THEN (HEIGHT * SLIDE_HEIGHT_PCT) \div 100 ELSE HEIGHT)

\* checkGroundCollision(), lines 609-622; handleLanding(), lines 271-277.
GroundCollision(p, b) ==
    LET playerHeight == IF p.isSliding THEN (HEIGHT * SLIDE_HEIGHT_PCT) \div 100
                                       ELSE HEIGHT
        q == [ p EXCEPT !.y = p.y + (playerHeight - p.y) \div 2, !.vy = 0 ]
    IN  IF ~TouchesGround(p) THEN p
        ELSE IF ~p.canJump
        THEN EndSlide([ q EXCEPT !.canJump = TRUE, !.isJumping = FALSE ], b)
        ELSE q

\* update(delta): the player after a frame of dt ms.
PlayerUpdate(p, b, dt) ==
    LET p1 == [ p EXCEPT !.vy = p.vy - (GRAVITY * dt) \div 1000 ]
        p2 == UpdateSlideTimers(p1, b, dt)
        p3 == [ p2 EXCEPT !.currentSpeed = UpdateSpeed(p2, b, dt) ]
        p4 == [ p3 EXCEPT !.y = p3.y + (p3.vy * dt) \div 1000 ]
    IN  GroundCollision(p4, b)

\* update(delta): is handleLanding() called in this frame?
LandsInFrame(p, b, dt) ==
    LET p1 == [ p EXCEPT !.vy = p.vy - (GRAVITY * dt) \div 1000 ]
        p2 == UpdateSlideTimers(p1, b, dt)
        p4 == [ p2 EXCEPT !.y = p2.y + (p2.vy * dt) \div 1000 ]
    IN  TouchesGround(p4) /\ ~p4.canJump

\* update(delta): the chain controller after the frame (landing, then its
\* own update at line 348).
BhopAfterFrame(p, b, dt) ==
    BhopUpdate(IF LandsInFrame(p, b, dt) THEN HandleLanding(b) ELSE b, dt)

(***************************************************************************)
(* The player driven by frames of the game loop and by input between       *)
(* frames.  The wall clock moves on by the frame time at every frame; the  *)
(* chain controller's reset timer, once due, runs before the next frame.   *)
(***************************************************************************)
\* Frame times (ms); Game.update clamps a frame to at most 100 ms.
PlayerFrameDeltas == {100}

\* Key states given to setMovementFromInput.
KeyStates ==
    { [ moving |-> FALSE, isSprinting |-> FALSE, isWalking |-> FALSE ],
      [ moving |-> TRUE,  isSprinting |-> FALSE, isWalking |-> FALSE ],
      [ moving |-> TRUE,  isSprinting |-> TRUE,  isWalking |-> FALSE ],
      [ moving |-> TRUE,  isSprinting |-> FALSE, isWalking |-> TRUE ] }

\* How many jumps, slides, key changes and knockbacks a behaviour may hold;
\* used counts those made so far.
MaxJumps == 3
MaxSlides == 1
MaxKeyChanges == 1
MaxKnockbacks == 1

TimerDue == TimeoutDue(bhop)

InitPlayer ==
    /\ bhop = BhopInit
    /\ hist = HistInit
    /\ player = PlayerInit
    /\ used = UsedInit
    /\ nav = NavIdle({})
    /\ mover = MoverInit({})
    /\ agent = AgentInit(FALSE)
    /\ enemy = EnemyInit(FALSE)
    /\ AtRest

\* One frame: Player.update(delta).
PlayerFrame ==
    \E dt \in PlayerFrameDeltas :
        LET b == BhopElapse(bhop, dt) IN
        /\ ~TimerDue
        /\ player' = PlayerUpdate(player, b, dt)
        /\ bhop' = BhopAfterFrame(player, b, dt)
        /\ hist' = Hist("frame", IF LandsInFrame(player, b, dt) THEN "land"
                                                                ELSE hist.ev)
        /\ UNCHANGED <<used, notPlayer>>

\* The jump key: Player.jump().
PlayerJump ==
    /\ ~TimerDue
    /\ CanStartJump(player)
    /\ bhop' = HandleJump(bhop)
    /\ used.jumps < MaxJumps
    /\ used' = [ used EXCEPT !.jumps = @ + 1 ]
    /\ player' = Jump(player, HandleJump(bhop))
    /\ hist' = [ op |-> "jump", ev |-> "jump", chained |-> JumpChains(bhop),
                 delta |-> bhop.sinceLand ]
    /\ UNCHANGED notPlayer

\* Player.startSlide().
PlayerSlide ==
    /\ ~TimerDue
    /\ CanStartSlide(player)
    /\ used.slides < MaxSlides
    /\ used' = [ used EXCEPT !.slides = @ + 1 ]
    /\ player' = StartSlide(player, bhop)
    /\ hist' = Hist("slide", hist.ev)
    /\ UNCHANGED <<bhop, notPlayer>>

\* A movement key changes: Player.setMovementFromInput(keyStates).
PlayerInput ==
    \E k \in KeyStates :
        /\ ~TimerDue
        /\ used.keys < MaxKeyChanges
        /\ used' = [ used EXCEPT !.keys = @ + 1 ]
        /\ player' = SetMovementFromInput(player, bhop, k)
        /\ hist' = Hist("input", hist.ev)
        /\ UNCHANGED <<bhop, notPlayer>>

\* An enemy touches the player: Player.applyKnockback(direction, 15).
PlayerKnockback ==
    /\ ~TimerDue
    /\ used.knockbacks < MaxKnockbacks
    /\ used' = [ used EXCEPT !.knockbacks = @ + 1 ]
    /\ player' = ApplyKnockback(player, KNOCKBACK_FORCE)
    /\ hist' = Hist("knockback", hist.ev)
    /\ UNCHANGED <<bhop, notPlayer>>

\* The chain controller's reset timer fires.
PlayerTimer ==
    /\ TimerDue
    /\ bhop' = TimeoutTaken(ResetBhop(bhop))
    /\ hist' = Hist("reset", "reset")
    /\ UNCHANGED <<player, used, notPlayer>>

NextPlayer ==
    PlayerFrame \/ PlayerJump \/ PlayerSlide \/ PlayerInput \/ PlayerKnockback
        \/ PlayerTimer

SpecPlayer == InitPlayer /\ [][NextPlayer]_vars

\* C4: in every reachable state of the player 0 <= currentSpeed <= MAX_SPEED.
C4_SpeedWithinMax ==
    /\ player.currentSpeed >= 0
    /\ player.currentSpeed <= MAX_SPEED

(***************************************************************************)
(* The grid pathfinder of src/main.js: the obstacle grid, A* (findPath),   *)
(* path simplification and the line-of-sight test.                         *)
(*                                                                         *)
(* The world is a square of GridCells x GridCells cells of GRID_SIZE world *)
(* units (the game's is 100 x 100 cells), centred on the origin.  World    *)
(* coordinates are integers; a point is <<x, z>>, a cell is <<cx, cz>>.    *)
(* An obstacle is the footprint [x0, x1] x [z0, z1] of its bounding box.   *)
(***************************************************************************)
GRID_SIZE == 2
GridCells == 3
GRID_WIDTH == GridCells * GRID_SIZE
GRID_HEIGHT == GridCells * GRID_SIZE

\* The cells of pathfindingGrid.
Cells == (0 .. GridCells - 1) \X (0 .. GridCells - 1)

Abs(n) == IF n < 0 THEN 0 - n ELSE n

\* Math.floor(a / b) and Math.ceil(a / b) for b > 0.
FloorDiv(a, b) == a \div b
CeilDiv(a, b) == 0 - ((0 - a) \div b)

\* initializePathfindingGrid(), lines 910-913: the cells one obstacle marks.
BoxCells(box) ==
    LET minX == FloorDiv(box.x0 + GRID_WIDTH \div 2, GRID_SIZE)
        maxX == CeilDiv(box.x1 + GRID_WIDTH \div 2, GRID_SIZE)
        minZ == FloorDiv(box.z0 + GRID_HEIGHT \div 2, GRID_SIZE)
        maxZ == CeilDiv(box.z1 + GRID_HEIGHT \div 2, GRID_SIZE)
    IN  { c \in Cells : /\ minX <= c[1] /\ c[1] < maxX
                        /\ minZ <= c[2] /\ c[2] < maxZ }

\* initializePathfindingGrid(): the cells with pathfindingGrid[x][z] = 0.
BlockedCells(obs) == UNION { BoxCells(box) : box \in obs }

\* worldToGrid(position).
WorldToGrid(pos) ==
    << FloorDiv(pos[1] + GRID_WIDTH \div 2, GRID_SIZE),
       FloorDiv(pos[2] + GRID_HEIGHT \div 2, GRID_SIZE) >>

\* A variant that returns the low corner of the cell.
GridToWorld_Corner(c) ==
    << c[1] * GRID_SIZE - GRID_WIDTH \div 2, c[2] * GRID_SIZE - GRID_HEIGHT \div 2 >>

\* gridToWorld(gridX, gridZ): the centre of the cell.
GridToWorld(c) ==
    << c[1] * GRID_SIZE - GRID_WIDTH \div 2 + GRID_SIZE \div 2,
       c[2] * GRID_SIZE - GRID_HEIGHT \div 2 + GRID_SIZE \div 2 >>

\* heuristic(a, b): Manhattan distance.
Heuristic(a, b) == Abs(a[1] - b[1]) + Abs(a[2] - b[2])

\* getNeighbors(node): the directions in the order of the code.
Directions ==
    << <<0, 1>>, <<1, 0>>, <<0, -1>>, <<-1, 0>>,
       <<1, 1>>, <<1, -1>>, <<-1, -1>>, <<-1, 1>> >>

\* A variant that looks in the four orthogonal directions only.
GetNeighbors_Orthogonal(node, blocked) ==
    LET all == [ i \in 1 .. 4 |->
                   << node[1] + Directions[i][1], node[2] + Directions[i][2] >> ]
    IN  SelectSeq(all, LAMBDA c : c \in Cells /\ c \notin blocked)

\* A variant of getNeighbors that does not look at pathfindingGrid.
GetNeighbors_ThroughWalls(node, blocked) ==
    LET all == [ i \in 1 .. Len(Directions) |->
                   << node[1] + Directions[i][1], node[2] + Directions[i][2] >> ]
    IN  SelectSeq(all, LAMBDA c : c \in Cells)

\* getNeighbors(node): the walkable neighbours, in order.
GetNeighbors(node, blocked) ==
    LET all == [ i \in 1 .. Len(Directions) |->
                   << node[1] + Directions[i][1], node[2] + Directions[i][2] >> ]
    IN  SelectSeq(all, LAMBDA c : c \in Cells /\ c \notin blocked)

\* findPath, line 959: the sort of openSet by f, which keeps the order of
\* discovery among equal f (Array.prototype.sort is stable).
RECURSIVE SortByF(_)
SortByF(open) ==
    IF Len(open) <= 1 THEN open
    ELSE LET minF == CHOOSE f \in { open[i].f : i \in 1 .. Len(open) } :
                         \A i \in 1 .. Len(open) : f <= open[i].f
             k == CHOOSE i \in 1 .. Len(open) :
                      /\ open[i].f = minF
                      /\ \A j \in 1 .. i - 1 : open[j].f # minF
         IN  <<open[k]>> \o
               SortByF(SubSeq(open, 1, k - 1) \o SubSeq(open, k + 1, Len(open)))

\* findPath, lines 984-990: is the cell in openSet?
InOpenSet(open, c) == \E i \in 1 .. Len(open) : open[i].c = c

\* findPath, lines 1009-1014: the f of the cell's entry in openSet is updated.
SetOpenF(open, c, f) ==
    [ i \in 1 .. Len(open) |->
        IF open[i].c = c THEN [ open[i] EXCEPT !.f = f ] ELSE open[i] ]

\* gScore[key] || Infinity: a missing score, and a score of 0, count as
\* Infinity.  NoScore stands for a missing entry.
NoScore == -1

BetterScore(tentative, g) == g = NoScore \/ g = 0 \/ tentative < g

\* findPath, lines 974-1017: one neighbour of current is examined.  s holds
\* openSet, closedSet, gScore and cameFrom.
VisitNeighbor(s, current, n, goal) ==
    LET tentative == s.gScore[current] + 1
        f == tentative + Heuristic(n, goal)
        open1 == IF InOpenSet(s.open, n) THEN s.open
                 ELSE Append(s.open, [ c |-> n, f |-> f ])
    IN  IF n \in s.closed THEN s
        ELSE IF BetterScore(tentative, s.gScore[n])
        THEN [ s EXCEPT !.open = SetOpenF(open1, n, f),
                        !.gScore = [ @ EXCEPT ![n] = tentative ],
                        !.cameFrom = [ @ EXCEPT ![n] = current ] ]
        ELSE [ s EXCEPT !.open = open1 ]

RECURSIVE VisitNeighbors(_, _, _, _)
VisitNeighbors(s, current, ns, goal) ==
    IF ns = << >> THEN s
    ELSE VisitNeighbors(VisitNeighbor(s, current, Head(ns), goal),
                        current, Tail(ns), goal)

\* cameFrom[key] of a cell that has no entry.
NoCell == << -1, -1 >>

\* findPath, lines 957-1018: the while loop.  The result is the state of the
\* search when the goal is taken from openSet (found) or openSet is empty.
RECURSIVE SearchLoop(_, _, _)
SearchLoop(s, goal, blocked) ==
    IF s.open = << >> THEN [ s EXCEPT !.found = FALSE ]
    ELSE LET sorted == SortByF(s.open)
             current == Head(sorted).c
             s1 == [ s EXCEPT !.open = Tail(sorted),
                              !.closed = @ \cup {current} ]
         IN  IF current = goal THEN [ s EXCEPT !.found = TRUE ]
             ELSE SearchLoop(
                      VisitNeighbors(s1, current, GetNeighbors(current, blocked), goal),
                      goal, blocked)

\* reconstructPath, lines 1083-1089: the cells from the start to current.
RECURSIVE CellsBack(_, _)
CellsBack(cameFrom, c) ==
    IF c = NoCell THEN << >>
    ELSE Append(CellsBack(cameFrom, cameFrom[c]), c)

\* Does the segment from a to b meet the closed rectangle box?  A point
\* a + t (b - a), 0 <= t <= 1, is in the box iff p t <= q for the four <<p, q>>
\* below; lo and hi are the bounds on t as fractions with positive denominators.
SegmentMeetsBox(a, b, box) ==
    LET dx == b[1] - a[1]
        dz == b[2] - a[2]
        cons == { << 0 - dx, a[1] - box.x0 >>, << dx, box.x1 - a[1] >>,
                  << 0 - dz, a[2] - box.z0 >>, << dz, box.z1 - a[2] >> }
        lo == { <<0, 1>> } \cup { << 0 - c[2], 0 - c[1] >> : c \in { k \in cons : k[1] < 0 } }
        hi == { <<1, 1>> } \cup { << c[2], c[1] >> : c \in { k \in cons : k[1] > 0 } }
    IN  /\ \A c \in cons : c[1] = 0 => c[2] >= 0
        /\ \A l \in lo : \A h \in hi : l[1] * h[2] <= h[1] * l[2]

\* lineOfSight(a, b): no obstacle is hit by the ray from a at a distance of
\* at most |b - a|.
LineOfSight(a, b, obs) == \A box \in obs : ~SegmentMeetsBox(a, b, box)

\* simplifyPath, lines 1106-1111: the furthest waypoint seen from path[i].
RECURSIVE FurthestVisible(_, _, _, _)
FurthestVisible(path, i, j, obs) ==
    IF j > Len(path) \/ ~LineOfSight(path[i], path[j], obs) THEN j - 1
    ELSE FurthestVisible(path, i, j + 1, obs)

\* simplifyPath, lines 1102-1115: the while loop from waypoint i (1-based).
RECURSIVE SimplifyFrom(_, _, _, _)
SimplifyFrom(path, i, simplified, obs) ==
    IF i < Len(path) - 1
    THEN LET fv == FurthestVisible(path, i, i + 2, obs)
         IN  SimplifyFrom(path, fv, Append(simplified, path[fv]), obs)
    ELSE IF i # Len(path) THEN Append(simplified, path[Len(path)])
         ELSE simplified

\* A variant that starts the result with the first waypoint twice.
SimplifyPath_StartTwice(path, obs) ==
    IF Len(path) <= 2 THEN path
    ELSE SimplifyFrom(path, 1, << path[1], path[1] >>, obs)

\* simplifyPath(path).
SimplifyPath(path, obs) ==
    IF Len(path) <= 2 THEN path
    ELSE SimplifyFrom(path, 1, << path[1] >>, obs)

\* The state of the search at line 955.
SearchInit(start, goal) ==
    [ open |-> << [ c |-> start, f |-> Heuristic(start, goal) ] >>,
      closed |-> {},
      gScore |-> [ c \in Cells |-> IF c = start THEN 0 ELSE NoScore ],
      cameFrom |-> [ c \in Cells |-> NoCell ],
      found |-> FALSE ]

\* findPath, lines 950-956: no valid path.
Rejected(start, goal, blocked) ==
    \/ start \notin Cells \/ goal \notin Cells
    \/ start \in blocked \/ goal \in blocked

\* The raw path of A*: the cell centres from start to goal, << >> if none.
RawPath(startPos, endPos, obs) ==
    LET start == WorldToGrid(startPos)
        goal == WorldToGrid(endPos)
        blocked == BlockedCells(obs)
        s == SearchLoop(SearchInit(start, goal), goal, blocked)
        cells == CellsBack(s.cameFrom, goal)
    IN  IF Rejected(start, goal, blocked) THEN << >>
        ELSE IF start = goal THEN << GridToWorld(start) >>
        ELSE IF s.found THEN [ i \in 1 .. Len(cells) |-> GridToWorld(cells[i]) ]
        ELSE << >>

\* findPath(startPos, endPos).
FindPath(startPos, endPos, obs) ==
    LET start == WorldToGrid(startPos)
        goal == WorldToGrid(endPos)
        raw == RawPath(startPos, endPos, obs)
    IN  IF Rejected(start, goal, BlockedCells(obs)) \/ start = goal THEN raw
        ELSE SimplifyPath(raw, obs)

(***************************************************************************)
(* Path requests against a scene.  The obstacles are fixed when the scene  *)
(* is built; an enemy asks for a path and later drops it.                  *)
(***************************************************************************)
\* The footprint with corner <<x, z>>, w wide and d deep.
Box(x, z, w, d) == [ x0 |-> x, x1 |-> x + w, z0 |-> z, z1 |-> z + d ]

\* Footprints a scene is built from: two that fill exactly one cell of the
\* 3 x 3 world and touch at a grid corner, and others that overlap several.
Boxes ==
    { Box(-1, -3, 2, 2), Box(-3, -1, 2, 2), Box(-2, -1, 2, 2),
      Box(0, 0, 2, 2), Box(-1, -3, 2, 4), Box(-1, 1, 2, 2),
      Box(1, -1, 2, 2), Box(-3, 1, 3, 2) }

\* The largest number of obstacles in a scene.
MaxObstacles == 2

Scenes == { obs \in SUBSET Boxes : Cardinality(obs) <= MaxObstacles }

\* Positions asked for: the low corner (for the start) and the centre (for
\* the goal) of every cell, and of the cells of one ring outside the grid.
RingCells == (-1 .. GridCells) \X (-1 .. GridCells)
StartPositions ==
    { << c[1] * GRID_SIZE - GRID_WIDTH \div 2, c[2] * GRID_SIZE - GRID_HEIGHT \div 2 >> :
        c \in RingCells }
GoalPositions == { GridToWorld(c) : c \in RingCells }

InitPath ==
    /\ bhop = BhopInit
    /\ hist = HistInit
    /\ player = PlayerInit
    /\ used = UsedInit
    /\ \E obs \in Scenes : nav = NavIdle(obs)
    /\ mover = MoverInit({})
    /\ agent = AgentInit(FALSE)
    /\ enemy = EnemyInit(FALSE)
    /\ AtRest

\* enemy.path = findPath(enemy.mesh.position, targetPos).
PathRequest ==
    /\ ~nav.requested
    /\ \E s \in StartPositions, g \in GoalPositions :
          nav' = [ nav EXCEPT !.requested = TRUE, !.startPos = s, !.endPos = g,
                              !.path = FindPath(s, g, nav.obstacles) ]
    /\ UNCHANGED notNav

\* enemy.path = [].
PathDrop ==
    /\ nav.requested
    /\ nav' = NavIdle(nav.obstacles)
    /\ UNCHANGED notNav

\* Positions an enemy standing on its own target asks about: the low corner
\* and the centre of every cell.
SamePositions == StartPositions \cup GoalPositions

\* enemy.path = findPath(p, p): the start is the goal.
PathRequestSame ==
    /\ ~nav.requested
    /\ \E p \in SamePositions :
          nav' = [ nav EXCEPT !.requested = TRUE, !.startPos = p, !.endPos = p,
                              !.path = FindPath(p, p, nav.obstacles) ]
    /\ UNCHANGED notNav

NextPath == PathRequest \/ PathRequestSame \/ PathDrop

SpecPath == InitPath /\ [][NextPath]_vars

(***************************************************************************)
(* Properties of the pathfinder.                                           *)
(***************************************************************************)
\* Two different cells that share an edge or a corner.
Adjacent8(a, b) == a # b /\ Abs(a[1] - b[1]) <= 1 /\ Abs(a[2] - b[2]) <= 1

\* The walkable cells linked to the cells of set by a chain of 8-connected
\* walkable cells.
RECURSIVE Linked(_, _)
Linked(set, blocked) ==
    LET more == { c : c \in { x \in Cells \ blocked :
                                   \E d \in set : Adjacent8(x, d) } }
    IN  IF more \subseteq set THEN set ELSE Linked(set \cup more, blocked)

\* The condition under which findPath is to return the empty sequence.
NoRoute(startPos, endPos, obs) ==
    LET start == WorldToGrid(startPos)
        goal == WorldToGrid(endPos)
        blocked == BlockedCells(obs)
    IN  \/ start \notin Cells \/ goal \notin Cells
        \/ start \in blocked \/ goal \in blocked
        \/ goal \notin Linked({start}, blocked)

\* C5: findPath returns the empty sequence exactly when start or goal maps
\* outside the grid or onto a blocked cell, or no chain of 8-connected
\* walkable cells links the start cell to the goal cell.
C5_EmptyExactlyWhenNoRoute ==
    nav.requested =>
        (nav.path = << >> <=> NoRoute(nav.startPos, nav.endPos, nav.obstacles))

\* Start and goal are walkable cells of the grid, but obstacles separate them.
C5_Witness ==
    /\ nav.requested
    /\ WorldToGrid(nav.startPos) \in Cells \ BlockedCells(nav.obstacles)
    /\ WorldToGrid(nav.endPos) \in Cells \ BlockedCells(nav.obstacles)
    /\ NoRoute(nav.startPos, nav.endPos, nav.obstacles)
    /\ nav.path = << >>

\* C6: in a returned path every two consecutive waypoints have a clear line
\* of sight.
C6_ConsecutiveWaypointsVisible ==
    nav.requested =>
        \A i \in 1 .. Len(nav.path) - 1 :
            LineOfSight(nav.path[i], nav.path[i + 1], nav.obstacles)

(***************************************************************************)
(* Horizontal collision handling of the player: Player.js                  *)
(* (improvedCollisionHandling, castCollisionRays, handleSlideAlongWalls,   *)
(* enforceBoundaries) and main.js (checkCollisions, updatePlayer).         *)
(*                                                                         *)
(* Lengths are in units of 0.2 world units, so that COLLISION_RADIUS = 0.8 *)
(* is 4 and a quarter of a displacement (interpFactor = 0.25) is a whole   *)
(* number.  Obstacles are the footprints of boxes taller than the player.  *)
(***************************************************************************)
COLLISION_RADIUS == 4
\* COLLISION_RADIUS * cos(45 degrees), rounded.
DIAGONAL_RADIUS == 3
\* 1 / interpFactor.
INTERP_DIV == 4
\* boundaryLimit of a small world (the game's is 99 world units).
boundaryLimit == 14

Sign(n) == IF n > 0 THEN 1 ELSE IF n < 0 THEN -1 ELSE 0

\* Does the ray from a towards b come upon a side of the box from outside
\* (a side is crossed inwards at or after a)?  Only the front of a face is
\* hit: a ray that starts inside the box, or on a face and leads away from
\* it, hits nothing.
FacesFront(a, b, box) ==
    \/ b[1] > a[1] /\ a[1] <= box.x0
    \/ b[1] < a[1] /\ a[1] >= box.x1
    \/ b[2] > a[2] /\ a[2] <= box.z0
    \/ b[2] < a[2] /\ a[2] >= box.z1

\* raycaster.intersectObjects(obstacles).length > 0 for the ray from a
\* with far point b.
RayHits(a, b, obs) ==
    \E box \in obs : FacesFront(a, b, box) /\ SegmentMeetsBox(a, b, box)

\* The vector of length COLLISION_RADIUS along the displacement d (d is
\* along an axis or a diagonal).
RadiusAlong(d) ==
    IF d[1] # 0 /\ d[2] # 0
    THEN << DIAGONAL_RADIUS * Sign(d[1]), DIAGONAL_RADIUS * Sign(d[2]) >>
    ELSE << COLLISION_RADIUS * Sign(d[1]), COLLISION_RADIUS * Sign(d[2]) >>

\* castCollisionRays, lines 494-506: the origins of the rays around the
\* player, at angles i / 8 of a turn.
RayOffsets ==
    { << COLLISION_RADIUS, 0 >>, << DIAGONAL_RADIUS, DIAGONAL_RADIUS >>,
      << 0, COLLISION_RADIUS >>, << 0 - DIAGONAL_RADIUS, DIAGONAL_RADIUS >>,
      << 0 - COLLISION_RADIUS, 0 >>, << 0 - DIAGONAL_RADIUS, 0 - DIAGONAL_RADIUS >>,
      << 0, 0 - COLLISION_RADIUS >>, << DIAGONAL_RADIUS, 0 - DIAGONAL_RADIUS >> }

\* castCollisionRays(position, direction, distance) for the displacement d:
\* direction = d normalised, distance = |d|.  A zero d gives the zero
\* direction, and a ray with the zero direction hits nothing.
CastCollisionRays(pos, d, obs) ==
    /\ d # <<0, 0>>
    /\ \/ RayHits(pos, << pos[1] + d[1] + RadiusAlong(d)[1],
                          pos[2] + d[2] + RadiusAlong(d)[2] >>, obs)
       \/ \E o \in RayOffsets :
             RayHits(<< pos[1] + o[1], pos[2] + o[2] >>,
                     << pos[1] + o[1] + d[1], pos[2] + o[2] + d[2] >>, obs)

\* lerpWithDelta(current, target, interpFactor).
LerpWithDelta(current, target) == current + (target - current) \div INTERP_DIV

\* A variant that checks the upper boundary only.
ClampToBoundary_UpperOnly(x) ==
    IF x > boundaryLimit THEN boundaryLimit ELSE x

\* enforceBoundaries() / updatePlayer lines 2640-2648, on one coordinate.
ClampToBoundary(x) ==
    IF Abs(x) > boundaryLimit THEN Sign(x) * boundaryLimit ELSE x

EnforceBoundaries(pos) == << ClampToBoundary(pos[1]), ClampToBoundary(pos[2]) >>

\* A variant that slides only when both axis moves are clear.
SlideTarget_BothOrNone(pos, target, xOnlyCollision, zOnlyCollision) ==
    IF ~xOnlyCollision /\ ~zOnlyCollision THEN target ELSE pos

\* handleSlideAlongWalls, lines 563-584: newPos.
SlideTarget(pos, target, xOnlyCollision, zOnlyCollision) ==
    << IF ~xOnlyCollision THEN target[1] ELSE pos[1],
       IF ~zOnlyCollision THEN target[2] ELSE pos[2] >>

\* handleSlideAlongWalls(currentPos, targetPos, moveDir).
HandleSlideAlongWalls(pos, d, obs) ==
    LET target == << pos[1] + d[1], pos[2] + d[2] >>
        newPos == SlideTarget(pos, target,
                              CastCollisionRays(pos, << d[1], 0 >>, obs),
                              CastCollisionRays(pos, << 0, d[2] >>, obs))
    IN  << LerpWithDelta(pos[1], newPos[1]), LerpWithDelta(pos[2], newPos[2]) >>

\* improvedCollisionHandling(newPosition, moveVelocity, delta), horizontal
\* part: d = newPosition - position.
ImprovedCollisionHandling(pos, d, obs) ==
    IF d = <<0, 0>> THEN pos
    ELSE IF ~CastCollisionRays(pos, d, obs) THEN << pos[1] + d[1], pos[2] + d[2] >>
    ELSE HandleSlideAlongWalls(pos, d, obs)

\* checkCollisions(newPosition, radius): Box3.intersectsSphere, in the plane.
CheckCollisions(p, obs) ==
    \E box \in obs :
        LET cx == Max(box.x0, Min(p[1], box.x1))
            cz == Max(box.z0, Min(p[2], box.z1))
        IN  (p[1] - cx) * (p[1] - cx) + (p[2] - cz) * (p[2] - cz)
                <= COLLISION_RADIUS * COLLISION_RADIUS

\* updatePlayer, lines 2553-2594: the horizontal move.
UpdatePlayerMove(pos, d, obs) ==
    LET target == << pos[1] + d[1], pos[2] + d[2] >>
        x == IF ~CheckCollisions(<< target[1], pos[2] >>, obs) THEN target[1]
                                                               ELSE pos[1]
        z == IF ~CheckCollisions(<< x, target[2] >>, obs) THEN target[2]
                                                          ELSE pos[2]
    IN  IF ~CheckCollisions(target, obs) THEN target ELSE << x, z >>

(***************************************************************************)
(* The player moving among obstacles, one step at a time.                  *)
(***************************************************************************)
\* Scenes: a wall, a small box, and a corner between two walls.  As in the
\* game, where obstacles are placed at most 80 units from the origin and the
\* boundary is at 99, no obstacle is within reach of a player at the boundary.
SlideScenes ==
    { { Box(3, -3, 2, 6) }, { Box(3, 3, 2, 2) },
      { Box(3, -3, 2, 6), Box(-3, 3, 6, 2) } }

\* Displacements of a step: 0.8 world units along an axis, or both.
StepLength == 4
Displacements ==
    { << x, z >> : x \in { 0 - StepLength, 0, StepLength },
                   z \in { 0 - StepLength, 0, StepLength } }

InitSlide ==
    /\ bhop = BhopInit
    /\ hist = HistInit
    /\ player = PlayerInit
    /\ used = UsedInit
    /\ nav = NavIdle({})
    /\ \E obs \in SlideScenes : mover = MoverInit(obs)
    /\ agent = AgentInit(FALSE)
    /\ enemy = EnemyInit(FALSE)
    /\ AtRest

\* Player.update(delta): the horizontal move and the boundary check.
PlayerMove ==
    \E d \in Displacements :
        LET pos == mover.pos
            obs == mover.obstacles
        IN  /\ mover' =
                 [ mover EXCEPT
                     !.pos = EnforceBoundaries(ImprovedCollisionHandling(pos, d, obs)),
                     !.op = "Player.update", !.from = pos, !.d = d ]
            /\ UNCHANGED notMover

\* updatePlayer(delta) of main.js: the horizontal move and the boundary check.
MainMove ==
    \E d \in Displacements :
        LET pos == mover.pos
            obs == mover.obstacles
        IN  /\ mover' =
                 [ mover EXCEPT
                     !.pos = EnforceBoundaries(UpdatePlayerMove(pos, d, obs)),
                     !.op = "updatePlayer", !.from = pos, !.d = d ]
            /\ UNCHANGED notMover

NextSlide == PlayerMove \/ MainMove

SpecSlide == InitSlide /\ [][NextSlide]_vars

(***************************************************************************)
(* Properties of the wall slide.                                           *)
(***************************************************************************)
\* The last step found its full displacement blocked.
StepBlocked ==
    IF mover.op = "Player.update"
    THEN CastCollisionRays(mover.from, mover.d, mover.obstacles)
    ELSE CheckCollisions(<< mover.from[1] + mover.d[1], mover.from[2] + mover.d[2] >>,
                         mover.obstacles)

\* The X-only part of the last step's displacement is a move, and clear.
XOpen ==
    /\ mover.d[1] # 0
    /\ IF mover.op = "Player.update"
       THEN ~CastCollisionRays(mover.from, << mover.d[1], 0 >>, mover.obstacles)
       ELSE ~CheckCollisions(<< mover.from[1] + mover.d[1], mover.from[2] >>,
                             mover.obstacles)

\* The Z-only part of the last step's displacement is a move, and clear.
ZOpen ==
    /\ mover.d[2] # 0
    /\ IF mover.op = "Player.update"
       THEN ~CastCollisionRays(mover.from, << 0, mover.d[2] >>, mover.obstacles)
       ELSE ~CheckCollisions(<< mover.from[1], mover.from[2] + mover.d[2] >>,
                             mover.obstacles)

\* C7: after a step whose full displacement was blocked while the X-only or
\* the Z-only move was open, the player is not where it was: it has moved
\* along X if the X move was open, along Z if only the Z move was open, and
\* along no axis whose move was not open.
C7_BlockedStepSlidesAlongOpenAxis ==
    (mover.op # "init" /\ StepBlocked /\ (XOpen \/ ZOpen)) =>
        /\ mover.pos # mover.from
        /\ XOpen => mover.pos[1] # mover.from[1]
        /\ (ZOpen /\ ~XOpen) => mover.pos[2] # mover.from[2]
        /\ mover.pos[1] # mover.from[1] => XOpen
        /\ mover.pos[2] # mover.from[2] => ZOpen

\* A diagonal step of Player.update into a wall: X is blocked, Z is open.
C7_Witness ==
    /\ mover.op = "Player.update"
    /\ StepBlocked /\ ~XOpen /\ ZOpen
    /\ mover.d[1] # 0
    /\ mover.pos[2] # mover.from[2]


(***************************************************************************)
(* The enemy state machine (src/unnamed/part_012): SPAWN, IDLE, CHASE,     *)
(* FLANK and STUCK.  The enemy moves on a line; only the displacement      *)
(* between recorded positions enters the stuck detection.                  *)
(***************************************************************************)
detectionRange == 1000
stuckDetectionWindow == 1000
stuckDetectionDistance == 8
stuckRecoveryDuration == 1500
SPAWN_DURATION == 500
MIN_SAMPLES == 5
STUCK_FRAMES == 20
CHASE_CHANCE == 850
TO_FLANK_CHANCE == 2
TO_CHASE_CHANCE == 10

\* Ages saturate just above the durations they are compared with: the age
\* of the last transition above SPAWN_DURATION, the others above
\* stuckRecoveryDuration (and so above stuckDetectionWindow).
TransitionAgeCap == SPAWN_DURATION + 1
EnemyAgeCap == stuckRecoveryDuration + 1

EnemyAge(t) == Min(t, EnemyAgeCap)

\* performance.now() has advanced by delta since the last frame.
AgentClock(a, delta) ==
    [ a EXCEPT !.transitionAge = Min(@ + delta, TransitionAgeCap),
               !.createdAge = Min(@ + delta, TransitionAgeCap),
               !.recoveryAge = EnemyAge(@ + delta),
               !.times = [ i \in 1..Len(@) |-> EnemyAge(@[i] + delta) ] ]

\* setState: nothing when the state is unchanged; previousState, which is
\* only logged, and the path fields it resets are not part of this model.
SetState(a, newState) ==
    IF a.state = newState THEN a
    ELSE [ a EXCEPT !.state = newState,
                    !.transitionAge = 0,
                    !.isStuck = IF newState = "STUCK" THEN TRUE ELSE @ ]

\* The while loop of updateStuckDetection: shift the arrays while the oldest
\* time is before now - stuckDetectionWindow.
RECURSIVE DropOld(_)
DropOld(a) ==
    IF Len(a.times) > 0 /\ a.times[1] > stuckDetectionWindow
    THEN DropOld([ a EXCEPT !.positions = Tail(@), !.times = Tail(@) ])
    ELSE a

\* "distanceMoved < stuckDetectionDistance" between the oldest and the
\* newest recorded position.
Confined(a) ==
    Abs(a.positions[1] - a.positions[Len(a.positions)]) < stuckDetectionDistance

\* "stuckCounter > 20", the counter kept in halves.
StuckLimitReached_Late(c) == c > 2 * (STUCK_FRAMES + 2)

StuckLimitReached(c) == c > 2 * STUCK_FRAMES

\* A variant that exempts no state.
StuckExempt_None(state) == FALSE

\* updateStuckDetection, line 229: the states in which a confined enemy is
\* not counted as stuck.
StuckExempt(state) == state \in {"IDLE", "SPAWN"}

\* updateStuckDetection.
UpdateStuckDetection(a) ==
    LET pushed == [ a EXCEPT !.positions = Append(@, a.position),
                             !.times = Append(@, 0) ]
        dropped == DropOld(pushed)
        checking == Len(dropped.positions) > MIN_SAMPLES /\ ~dropped.isStuck
        kept == [ dropped EXCEPT !.stillChecks =
                      IF ~checking THEN @
                      ELSE IF Confined(dropped) THEN Min(@ + 1, STUCK_FRAMES + 1)
                      ELSE 0 ]
    IN  IF checking
        THEN IF Confined(kept) /\ ~StuckExempt(kept.state)
             THEN LET counted ==
                          [ kept EXCEPT !.stuckCounter = @ + 2,
                                        !.confinedChecks = @ + 1 ]
                  IN  IF StuckLimitReached(counted.stuckCounter)
                      THEN [ SetState(counted, "STUCK")
                                 EXCEPT !.recoveryAge = 0 ]
                      ELSE counted
             ELSE [ kept EXCEPT !.stuckCounter = Max(0, @ - 4),
                                !.confinedChecks = 0 ]
        ELSE kept

\* The branch of updateState taken when the player is out of range.
OutOfRange_KeepChasing(a) ==
    IF a.state \notin {"IDLE", "SPAWN", "CHASE"} THEN SetState(a, "IDLE") ELSE a

OutOfRange(a) ==
    IF a.state \notin {"IDLE", "SPAWN"} THEN SetState(a, "IDLE") ELSE a

\* The exit of the STUCK state in updateState.
RecoveryOver(a) == a.recoveryAge > stuckRecoveryDuration

\* updateState; random is the value of the one Math.random() call a branch
\* makes, in thousandths.
UpdateState(a, distanceToPlayer, random) ==
    IF a.state = "STUCK"
    THEN IF RecoveryOver(a)
         THEN LET freed == [ a EXCEPT !.isStuck = FALSE,
                                      !.stuckCounter = 0,
                                      !.confinedChecks = 0,
                                      !.stillChecks = 0 ]
              IN  IF distanceToPlayer <= detectionRange
                  THEN SetState(freed, "CHASE")
                  ELSE SetState(freed, "IDLE")
         ELSE a
    ELSE IF a.state = "SPAWN" /\ a.transitionAge > SPAWN_DURATION
    THEN SetState(a, IF distanceToPlayer <= detectionRange
                     THEN "CHASE" ELSE "IDLE")
    ELSE IF distanceToPlayer <= detectionRange
    THEN IF a.state \notin {"CHASE", "FLANK"}
         THEN SetState(a, IF random < CHASE_CHANCE THEN "CHASE" ELSE "FLANK")
         ELSE IF a.state = "CHASE" /\ random < TO_FLANK_CHANCE
         THEN SetState(a, "FLANK")
         ELSE IF a.state = "FLANK" /\ random < TO_CHASE_CHANCE
         THEN SetState(a, "CHASE")
         ELSE a
    ELSE OutOfRange(a)

\* The behaviour of the state after updateState: the enemy ends the frame at
\* position to; blocked says that moveAlongPath found every way around an
\* obstacle closed, and avoidObstacle added 0.5 to the stuck counter.
Behave(a, to, blocked) ==
    [ a EXCEPT !.position = to,
               !.stuckCounter = IF blocked THEN @ + 1 ELSE @ ]

(***************************************************************************)
(* The enemy of src/js/entities/Enemy.js: IDLE, CHASE, FLANK and STUCK.    *)
(***************************************************************************)
stuckThreshold == 5
maxStuckCount == 5
LEGACY_CHASE_CHANCE == 800
UNSTUCK_CHANCE == 100

\* setState of Enemy.js.
LegacySetState(e, newState) ==
    IF e.state = newState THEN e
    ELSE [ e EXCEPT !.stuckCounter = IF e.state = "STUCK" THEN 0 ELSE @,
                    !.state = newState ]

\* The stuck check of update: the distance to the last position of note.
LegacyStuckCheck(e) ==
    IF Abs(e.position - e.lastPosition) < stuckThreshold
    THEN LET counted == [ e EXCEPT !.stuckCounter = @ + 1 ]
         IN  IF counted.stuckCounter > maxStuckCount /\ counted.state # "STUCK"
             THEN LegacySetState(counted, "STUCK")
             ELSE counted
    ELSE [ e EXCEPT !.stuckCounter = 0, !.lastPosition = e.position ]

\* The detection block of update.
LegacyDetection(e, distanceToPlayer, random) ==
    IF distanceToPlayer <= detectionRange
    THEN IF e.state \notin {"CHASE", "FLANK", "STUCK"}
         THEN LegacySetState(e, IF random < LEGACY_CHASE_CHANCE
                                THEN "CHASE" ELSE "FLANK")
         ELSE e
    ELSE IF e.state # "IDLE" THEN LegacySetState(e, "IDLE") ELSE e

\* The update of the current state: the enemy ends the frame at position
\* to, and updateStuck returns to CHASE when its Math.random() is below 0.1.
LegacyBehave(e, to, random) ==
    LET moved == [ e EXCEPT !.position = IF e.state = "IDLE" THEN @ ELSE to ]
    IN  IF e.state = "STUCK" /\ random < UNSTUCK_CHANCE
        THEN LegacySetState(moved, "CHASE")
        ELSE moved

\* Enemy.update of src/js/entities/Enemy.js.
LegacyUpdated(e, distanceToPlayer, random, to, exitRandom) ==
    LET checked == LegacyStuckCheck(e)
        decided == LegacyDetection(checked, distanceToPlayer, random)
    IN  [ LegacyBehave(decided, to, exitRandom)
              EXCEPT !.op = "update",
                     !.entry = e.state,
                     !.distanceToPlayer = distanceToPlayer ]

(***************************************************************************)
(* Frames of a game with one enemy.                                        *)
(***************************************************************************)
\* Time between two frames: five frames 200 apart fill the detection
\* window with six positions; a frame 1500 late empties it and is exactly
\* one recovery duration long.
EnemyFrameDeltas == {200, 1500}

\* Places on the line, stuckDetectionDistance apart.
EnemyPositions == {0, stuckDetectionDistance}

\* Distances to the player: exactly the range, and far beyond it.
PlayerDistances == {detectionRange, 2000}

\* Values of Math.random() in thousandths, one for each outcome of the
\* comparisons with 0.002, 0.01 and 0.85, and with 0.1 and 0.8.
Randoms == {0, 5, 900}
LegacyRandoms == {50, 900}

\* The Math.random() calls of updateState: none in STUCK, when leaving
\* SPAWN, or with the player out of range.
RandomsOf(a, distanceToPlayer) ==
    IF \/ a.state = "STUCK"
       \/ a.state = "SPAWN" /\ a.transitionAge > SPAWN_DURATION
       \/ distanceToPlayer > detectionRange
    THEN {5} ELSE Randoms

\* The ways a frame's behaviour can end: at a position, or, for moveAlongPath
\* in CHASE and FLANK, blocked where the enemy stands.
Moves == { [ to |-> q, blocked |-> FALSE ] : q \in EnemyPositions }

MovesOf(a) ==
    IF a.state \in {"CHASE", "FLANK"}
    THEN Moves \cup { [ to |-> a.position, blocked |-> TRUE ] }
    ELSE Moves

\* The stuck counters grow without a limit while no check resets them.
MaxStuckCounter == 24

\* performance.now() at the first frame counts from the page load, so the
\* age of stateTransitionTime = 0 may be anything by then.
InitEnemy ==
    /\ bhop = BhopInit
    /\ hist = HistInit
    /\ player = PlayerInit
    /\ used = UsedInit
    /\ nav = NavIdle({})
    /\ mover = MoverInit({})
    /\ \E live \in BOOLEAN, age \in {0, EnemyAgeCap} :
          /\ agent = [ AgentClock(AgentInit(live), age) EXCEPT !.createdAge = 0 ]
          /\ enemy = EnemyInit(~live)
          /\ live \/ age = 0
    /\ AtRest

\* What a run may hold of disturbances of the steady frame (200 since the
\* last, the enemy where it was, the player in range): a frame that comes
\* late, a step of the enemy, a blocked move, and the player out of range
\* count one each.
MaxDisturbances == 2

Count(condition) == IF condition THEN 1 ELSE 0

\* The disturbances of one frame, added to those used so far.
UsedBy(u, a, delta, distanceToPlayer, move) ==
    [ u EXCEPT !.disturbances =
          @ + Count(delta > 200) + Count(move.to # a.position)
            + Count(move.blocked) + Count(distanceToPlayer > detectionRange) ]

WithinBudget(u) == u.disturbances <= MaxDisturbances

\* One frame of the enemy of src/unnamed/part_012.
AgentUpdate ==
    /\ agent.live
    /\ \E delta \in EnemyFrameDeltas, distanceToPlayer \in PlayerDistances :
          \E detected \in { UpdateStuckDetection(AgentClock(agent, delta)) },
             random \in Randoms :
             /\ random \in RandomsOf(detected, distanceToPlayer)
             /\ \E decided \in
                       { UpdateState(detected, distanceToPlayer, random) } :
                    \E move \in MovesOf(decided) :
                        /\ decided.stuckCounter < 2 * MaxStuckCounter
                        /\ used' = UsedBy(used, agent, delta,
                                          distanceToPlayer, move)
                        /\ WithinBudget(used')
                        /\ agent' = [ Behave(decided, move.to, move.blocked)
                                        EXCEPT !.op = "update",
                                               !.entry = detected.state,
                                               !.distanceToPlayer =
                                                   distanceToPlayer ]
    /\ UNCHANGED enemy
    /\ UNCHANGED notEnemy

\* One frame of the enemy of src/js/entities/Enemy.js.
LegacyUpdate ==
    /\ enemy.live
    /\ enemy.stuckCounter < MaxStuckCounter
    /\ \E distanceToPlayer \in PlayerDistances, random \in LegacyRandoms,
          to \in EnemyPositions, exitRandom \in LegacyRandoms :
          enemy' = LegacyUpdated(enemy, distanceToPlayer, random, to,
                                 exitRandom)
    /\ UNCHANGED <<agent, used>>
    /\ UNCHANGED notEnemy

NextEnemy == AgentUpdate \/ LegacyUpdate

SpecEnemy == InitEnemy /\ [][NextEnemy]_vars

\* C8: an enemy in CHASE or FLANK found confined (moved less than
\* stuckDetectionDistance over the rolling window) at more than STUCK_FRAMES
\* consecutive stuck-detection checks is in STUCK; it leaves STUCK only at
\* an update where more than stuckRecoveryDuration has passed since it
\* entered, and an update of a STUCK enemy at which that much has passed
\* and the player is within detectionRange puts it in CHASE.
C8_StuckEntryAndRecovery ==
    [][ /\ agent'.confinedChecks > STUCK_FRAMES => agent'.state = "STUCK"
        /\ (agent.state = "STUCK" /\ agent'.state # "STUCK")
              => agent'.recoveryAge > stuckRecoveryDuration
        /\ ( /\ agent.state = "STUCK"
             /\ agent'.recoveryAge > stuckRecoveryDuration
             /\ agent'.distanceToPlayer <= detectionRange )
              => agent'.state = "CHASE" ]_vars

\* An enemy that was STUCK for longer than the recovery duration has just
\* returned to CHASE with the player in range.
C8_Witness ==
    /\ agent.op = "update"
    /\ agent.entry = "STUCK"
    /\ agent.state = "CHASE"
    /\ agent.transitionAge = 0
    /\ agent.recoveryAge > stuckRecoveryDuration
    /\ agent.distanceToPlayer <= detectionRange

\* C9: an enemy that is in CHASE when its state update runs with the player
\* beyond detectionRange is in IDLE after that one update, in both versions
\* of the class.
C9_ChaseOutOfRangeGoesIdle ==
    /\ ( /\ agent.op = "update"
         /\ agent.entry = "CHASE"
         /\ agent.distanceToPlayer > detectionRange ) => agent.state = "IDLE"
    /\ ( /\ enemy.op = "update"
         /\ enemy.entry = "CHASE"
         /\ enemy.distanceToPlayer > detectionRange ) => enemy.state = "IDLE"

\* A chasing enemy has just lost a player 200 units away.
C9_Witness ==
    /\ agent.op = "update"
    /\ agent.entry = "CHASE"
    /\ agent.distanceToPlayer = 2000
    /\ agent.state = "IDLE"


(***************************************************************************)
(* The chain controller on a wall clock: a fresh controller, a few jumps   *)
(* and landings at known times.                                            *)
(***************************************************************************)
\* The clock stops here, before the reset timer of any landing is due.
MaxClock == 230

\* Jumps and landings of a run.
MaxEvents == 4

\* Wall-clock time (ms) between two calls: 100 = 50 + 50, 150 = 100 + 50,
\* 230 = 150 + 80.
ClockSteps == {50, 80}

\* What the log keeps of a call: its time and what getBhopStatus shows
\* after it.
Logged(ev, clock, b) ==
    [ ev |-> ev, t |-> clock, quality |-> b.lastJumpQuality,
      chainCount |-> b.chainCount, currentBoost |-> b.currentBoost ]

InitClocked ==
    /\ bhop = BhopInit
    /\ hist = [ op |-> "init", clock |-> 0, log |-> << >> ]
    /\ player = PlayerInit
    /\ used = UsedInit
    /\ nav = NavIdle({})
    /\ mover = MoverInit({})
    /\ agent = AgentInit(FALSE)
    /\ enemy = EnemyInit(FALSE)
    /\ AtRest

\* player.jump() reaching handleJump(Date.now()).
ClockedJump ==
    /\ Len(hist.log) < MaxEvents
    /\ bhop' = HandleJump(bhop)
    /\ hist' = [ hist EXCEPT !.op = "jump",
                             !.log = Append(@, Logged("jump", hist.clock, bhop')) ]
    /\ UNCHANGED notBhop

\* player.handleLanding() reaching handleLanding(Date.now()).
ClockedLand ==
    /\ Len(hist.log) < MaxEvents
    /\ bhop' = HandleLanding(bhop)
    /\ hist' = [ hist EXCEPT !.op = "land",
                             !.log = Append(@, Logged("land", hist.clock, bhop')) ]
    /\ UNCHANGED notBhop

\* update(delta) is called.
ClockedFrame ==
    \E dt \in FrameDeltas :
        /\ bhop' = BhopUpdate(bhop, dt)
        /\ hist' = [ hist EXCEPT !.op = "update" ]
        /\ UNCHANGED notBhop

\* Time passes.
ClockedWait ==
    \E ms \in ClockSteps :
        /\ hist.clock + ms <= MaxClock
        /\ bhop' = BhopElapse(bhop, ms)
        /\ hist' = [ hist EXCEPT !.op = "wait", !.clock = @ + ms ]
        /\ UNCHANGED notBhop

NextClocked == ClockedJump \/ ClockedLand \/ ClockedFrame \/ ClockedWait

SpecClocked == InitClocked /\ [][NextClocked]_vars

\* Was the k-th call of the run ev at time t?
Called(k, ev, t) ==
    /\ Len(hist.log) >= k
    /\ hist.log[k].ev = ev
    /\ hist.log[k].t = t

\* C11: on a fresh controller, a landing at 0 and a jump at 100 ms give
\* quality PERFECT and chainCount 1; a landing at 150 ms and a jump at
\* 230 ms after them give chainCount 2 and a currentBoost above the one
\* held at chainCount 1.
C11_ScenarioA ==
    /\ (Called(1, "land", 0) /\ Called(2, "jump", 100)) =>
           /\ hist.log[2].quality = "PERFECT"
           /\ hist.log[2].chainCount = 1
    /\ ( /\ Called(1, "land", 0) /\ Called(2, "jump", 100)
         /\ Called(3, "land", 150) /\ Called(4, "jump", 230) ) =>
           /\ hist.log[4].chainCount = 2
           /\ hist.log[4].currentBoost > hist.log[2].currentBoost

\* The four calls of the scenario have been made.
C11_Witness ==
    /\ Called(1, "land", 0) /\ Called(2, "jump", 100)
    /\ Called(3, "land", 150) /\ Called(4, "jump", 230)
    /\ bhop.chainCount = 2
    /\ bhop.lastJumpQuality = "PERFECT"


\* C12: a jump with a recorded landing and delta <= BHOP_WINDOW sets
\* chainCount to min(MAX_CHAIN_COUNT, chainCount + 1) and the quality to
\* PERFECT when delta <= PERFECT_BHOP_WINDOW and to GOOD otherwise;
\* chainCount is within 0..MAX_CHAIN_COUNT after every call.
C12_ChainedJumpExtends ==
    [][ /\ bhop'.chainCount \in 0..MAX_CHAIN_COUNT
        /\ ( /\ hist'.op = "jump"
             /\ bhop.hasLanded
             /\ bhop.sinceLand <= BHOP_WINDOW ) =>
               /\ bhop'.chainCount =
                      IF bhop.chainCount + 1 < MAX_CHAIN_COUNT
                      THEN bhop.chainCount + 1 ELSE MAX_CHAIN_COUNT
               /\ bhop'.lastJumpQuality =
                      IF bhop.sinceLand <= PERFECT_BHOP_WINDOW
                      THEN "PERFECT" ELSE "GOOD" ]_vars

\* A GOOD hop made on a full chain has left the chain count at its cap.
C12_Witness ==
    /\ hist.op = "jump"
    /\ hist.chained
    /\ hist.delta > PERFECT_BHOP_WINDOW
    /\ bhop.chainCount = MAX_CHAIN_COUNT
    /\ bhop.lastJumpQuality = "GOOD"


(***************************************************************************)
(* The difficulty coordinator (EntityManager, src/unnamed/part_007) and    *)
(* the statistics it reads from the chain controller.  A fraction is a     *)
(* pair <<n, d>> with n >= 0 and d > 0.                                    *)
(***************************************************************************)
maxDifficultyLevel == 3000
DIFFICULTY_STEP == 1
TARGET_SPAN == 1800
DAMAGE_KEEP_PCT == 90
SUCCESS_WEIGHT == 5
PERFECT_WEIGHT == 3
TIMING_WEIGHT == 2

RECURSIVE GCD(_, _)
GCD(a, b) == IF b = 0 THEN a ELSE GCD(b, a % b)

\* n / d in lowest terms.
Fraction(n, d) == LET g == GCD(n, d) IN <<n \div g, d \div g>>

FractionSum(a, b) == Fraction(a[1] * b[2] + b[1] * a[2], a[2] * b[2])

\* a times weight / 10.
Weighted(a, weight) == Fraction(a[1] * weight, a[2] * 10)

FractionAtMost(a, b) == a[1] * b[2] <= b[1] * a[2]

\* handleJump, lines 118-150: the statistics after a jump delta ms after
\* the last landing, if one was recorded.
StatsAfterJump(m, landed, delta) ==
    IF landed /\ delta <= BHOP_WINDOW
    THEN [ m EXCEPT !.totalJumps = @ + 1,
                    !.successfulBhops = @ + 1,
                    !.perfectBhops =
                        IF delta <= PERFECT_BHOP_WINDOW THEN @ + 1 ELSE @,
                    !.totalTiming = @ + delta ]
    ELSE [ m EXCEPT !.totalJumps = @ + 1 ]

\* updateDifficulty, lines 219-222; averageTiming is
\* totalTiming / successfulBhops.
SuccessRate(m) ==
    IF m.totalJumps > 0 THEN Fraction(m.successfulBhops, m.totalJumps)
    ELSE Fraction(0, 1)

PerfectRate(m) ==
    IF m.successfulBhops > 0 THEN Fraction(m.perfectBhops, m.successfulBhops)
    ELSE Fraction(0, 1)

TimingFactor(m) ==
    IF m.successfulBhops > 0 /\ m.totalTiming > 0
    THEN Fraction(PERFECT_BHOP_WINDOW * m.successfulBhops, m.totalTiming)
    ELSE Fraction(0, 1)

\* updateDifficulty, line 225.
SkillSum(m) ==
    FractionSum(Weighted(SuccessRate(m), SUCCESS_WEIGHT),
                FractionSum(Weighted(PerfectRate(m), PERFECT_WEIGHT),
                            Weighted(TimingFactor(m), TIMING_WEIGHT)))

\* A variant without the Math.min of line 226.
Skill_Uncapped(m) == SkillSum(m)

\* updateDifficulty, lines 225-226.
Skill(m) ==
    IF FractionAtMost(Fraction(1, 1), SkillSum(m)) THEN Fraction(1, 1)
    ELSE SkillSum(m)

\* "difficultyLevel < targetDifficulty" and its mirror image, for the target
\* 1.0 + skill * 1.5 of line 230.
BelowTarget(level, skill) ==
    (level - LevelUnit) * skill[2] < TARGET_SPAN * skill[1]

AboveTarget(level, skill) ==
    (level - LevelUnit) * skill[2] > TARGET_SPAN * skill[1]

\* updateDifficulty, lines 233-238.
RaisedLevel(level) == Min(maxDifficultyLevel, level + DIFFICULTY_STEP)

\* updateDifficulty with difficultyScalingEnabled.
UpdateDifficulty(m) ==
    LET skill == Skill(m)
    IN  [ m EXCEPT !.playerBhopSkill = skill,
                   !.difficultyLevel =
                       IF BelowTarget(@, skill) THEN RaisedLevel(@) ELSE @ ]

\* A variant without the Math.max of line 287.
DamagedLevel_NoFloor(level) == (level * DAMAGE_KEEP_PCT) \div 100

\* handlePlayerDamage, line 287.
DamagedLevel(level) == Max(LevelUnit, (level * DAMAGE_KEEP_PCT) \div 100)

\* handlePlayerDamage.
HandlePlayerDamage(m) ==
    [ m EXCEPT !.difficultyLevel = DamagedLevel(@) ]

\* Jumps the statistics of a run may hold.
MaxStatJumps == 2

\* Times (ms) between a landing and the next jump: a PERFECT hop, and a
\* GOOD one whose target difficulty falls between two levels.
StatDeltas == {100, 350}

\* One call on the manager, remembering the level it found.
Managed(m, op) == [ m EXCEPT !.op = op, !.before = manager.difficultyLevel ]

InitDifficulty ==
    /\ bhop = BhopInit
    /\ hist = HistInit
    /\ player = PlayerInit
    /\ used = UsedInit
    /\ nav = NavIdle({})
    /\ mover = MoverInit({})
    /\ agent = AgentInit(FALSE)
    /\ enemy = EnemyInit(FALSE)
    /\ manager = ManagerInit
    /\ game = GameInit
    /\ route = RouteInit

\* The player jumps: handleJump updates bhopStats.
ManagerJump ==
    /\ manager.totalJumps < MaxStatJumps
    /\ \E landed \in BOOLEAN, delta \in StatDeltas :
          manager' = Managed(StatsAfterJump(manager, landed, delta), "handleJump")
    /\ UNCHANGED <<bhop, hist, player, used, nav, mover, agent, enemy, game, route>>

\* EntityManager.update calls updateDifficulty once a frame.
ManagerUpdate ==
    /\ manager' = Managed(UpdateDifficulty(manager), "updateDifficulty")
    /\ UNCHANGED <<bhop, hist, player, used, nav, mover, agent, enemy, game, route>>

\* An enemy touches the player.
ManagerHit ==
    /\ manager' = Managed(HandlePlayerDamage(manager), "handlePlayerDamage")
    /\ UNCHANGED <<bhop, hist, player, used, nav, mover, agent, enemy, game, route>>

NextDifficulty == ManagerJump \/ ManagerUpdate \/ ManagerHit

SpecDifficulty == InitDifficulty /\ [][NextDifficulty]_vars

\* C13: the difficulty level is at least 1.0 and at most maxDifficultyLevel
\* after any sequence of difficulty updates and player hits.
C13_DifficultyInRange ==
    /\ manager.difficultyLevel >= LevelUnit
    /\ manager.difficultyLevel <= maxDifficultyLevel

\* A hit has just been stopped at level 1.0.
C13_Witness ==
    /\ manager.op = "handlePlayerDamage"
    /\ manager.before > LevelUnit
    /\ manager.before < LevelUnit + 100
    /\ manager.difficultyLevel = LevelUnit

\* C14: a difficulty update that finds the level off the target moves it
\* toward the target, by no more than the step, and never past the target.
C14_LevelMovesTowardTarget ==
    manager.op = "updateDifficulty" =>
        /\ BelowTarget(manager.before, manager.playerBhopSkill) =>
              /\ manager.difficultyLevel > manager.before
              /\ manager.difficultyLevel <= manager.before + DIFFICULTY_STEP
              /\ ~AboveTarget(manager.difficultyLevel, manager.playerBhopSkill)
        /\ AboveTarget(manager.before, manager.playerBhopSkill) =>
              /\ manager.difficultyLevel < manager.before
              /\ manager.difficultyLevel >= manager.before - DIFFICULTY_STEP
              /\ ~BelowTarget(manager.difficultyLevel, manager.playerBhopSkill)

\* C20: the player skill computed by updateDifficulty is within [0, 1].
C20_SkillInUnitRange ==
    /\ manager.playerBhopSkill[2] > 0
    /\ manager.playerBhopSkill[1] >= 0
    /\ manager.playerBhopSkill[1] <= manager.playerBhopSkill[2]

\* An update has just cut a skill sum above 1 down to 1.
C20_Witness ==
    /\ manager.op = "updateDifficulty"
    /\ manager.totalJumps > 0
    /\ ~FractionAtMost(SkillSum(manager), Fraction(1, 1))
    /\ manager.playerBhopSkill = Fraction(1, 1)


(***************************************************************************)
(* findPath(p, p): the start is the goal.                                  *)
(***************************************************************************)
\* The request was findPath(p, p) with p on a walkable cell of the grid.
SameWalkable ==
    /\ nav.requested
    /\ nav.startPos = nav.endPos
    /\ WorldToGrid(nav.startPos) \in Cells \ BlockedCells(nav.obstacles)

\* w is the centre of a grid cell, and p lies in that cell.
CentreOfCellOf(w, p) ==
    \A k \in 1 .. 2 :
        /\ (w[k] + GRID_WIDTH \div 2 - GRID_SIZE \div 2) % GRID_SIZE = 0
        /\ w[k] - GRID_SIZE \div 2 <= p[k]
        /\ p[k] < w[k] + GRID_SIZE \div 2

\* C15 as stated: findPath(p, p) with p on a walkable cell of the grid returns
\* exactly one waypoint, and the waypoint is p.
C15_SingleWaypointAtP ==
    SameWalkable => nav.path = << nav.startPos >>

\* C15: findPath(p, p) with p on a walkable cell of the grid returns exactly
\* one waypoint, the centre of the cell that holds p.
C15_SingleWaypointAtCellCentre ==
    SameWalkable =>
        /\ Len(nav.path) = 1
        /\ CentreOfCellOf(nav.path[1], nav.startPos)

\* p is the low corner of a walkable cell: the waypoint is not p.
C15_Witness ==
    /\ SameWalkable
    /\ Len(nav.path) = 1
    /\ nav.path[1] # nav.startPos
    /\ CentreOfCellOf(nav.path[1], nav.startPos)


\* The raw A* path of the request that nav.path answers.
RawOfRequest == RawPath(nav.startPos, nav.endPos, nav.obstacles)

\* C16: the simplified path that findPath returns has at most as many
\* waypoints as the raw A* path it was made from.
C16_SimplifiedNoLongerThanRaw ==
    nav.requested => Len(nav.path) <= Len(RawOfRequest)

\* A raw path of three or more waypoints lost one to the simplification.
C16_Witness ==
    /\ nav.requested
    /\ Len(RawOfRequest) >= 3
    /\ Len(nav.path) < Len(RawOfRequest)
    /\ Len(nav.path) >= 2


(***************************************************************************)
(* The world boundary.                                                     *)
(***************************************************************************)
\* C17: after every step of the player, by Player.update or by updatePlayer,
\* the position is inside the world boundary: |x| <= boundaryLimit and
\* |z| <= boundaryLimit.
C17_PositionInsideBoundary ==
    /\ Abs(mover.pos[1]) <= boundaryLimit
    /\ Abs(mover.pos[2]) <= boundaryLimit

\* A step whose displacement led across the boundary ended on the boundary.
C17_Witness ==
    /\ mover.op # "init"
    /\ \E k \in 1 .. 2 :
          /\ Abs(mover.from[k] + mover.d[k]) > boundaryLimit
          /\ Abs(mover.pos[k]) = boundaryLimit


(***************************************************************************)
(* The game loop (src/js/core/Game.js, update) with the slow motion of     *)
(* src/js/utils/SlowMotionManager.js.  Times are ms; time scales are in    *)
(* 1 / ScaleUnit; a step time scaled by a time scale is in ms / ScaleUnit. *)
(***************************************************************************)
\* Game.update, line 151: the largest raw step time (0.1 s).
MAX_DELTA == 100
\* Enemy.update, line 140: the largest step time of an enemy (0.1 s).
ENEMY_MAX_DELTA == 100
\* checkPlayerEnemyCollisions, line 265: triggerSlowMotion(0.25, 1.2).
HIT_SLOWMO_SCALE == 2000
HIT_SLOWMO_DURATION == 1200

\* A variant that hands on the time of the clock as it is.
RawDelta_Unclamped(elapsed) == elapsed

\* Game.update, line 151: Math.min(0.1, this.clock.getDelta()).
RawDelta(elapsed) == Min(MAX_DELTA, elapsed)

\* SlowMotionManager.triggerSlowMotion(newScale, duration).
TriggerSlowMotion(g, newScale, duration) ==
    [ g EXCEPT !.initialSlowMoScale = newScale, !.timeScale = newScale,
               !.slowMoDuration = duration, !.slowMoTimer = duration ]

\* SlowMotionManager.update, lines 36-38: the scale on the way back to 1,
\* initial + t (1 - initial) with t = 1 - timer / duration.
InterpolatedScale(initial, timer, duration) ==
    initial + ((duration - timer) * (ScaleUnit - initial)) \div duration

\* SlowMotionManager.update(delta).
SlowMotionUpdate(g, delta) ==
    IF g.slowMoTimer > 0
    THEN LET timer == g.slowMoTimer - delta
         IN  [ g EXCEPT !.slowMoTimer = timer,
                        !.timeScale =
                            IF timer <= 0 THEN ScaleUnit
                            ELSE InterpolatedScale(g.initialSlowMoScale, timer,
                                                   g.slowMoDuration) ]
    ELSE g

\* Enemy.update, line 140: delta = Math.min(delta, 0.1).
EnemyDelta(delta) == Min(delta, ENEMY_MAX_DELTA * ScaleUnit)

\* Game.update(): the step times of one tick, for the time the clock gives
\* (elapsed), and the slow motion that a collision of the player with an
\* enemy triggers at the end of EntityManager.update.
Ticked(g, elapsed, hit) ==
    LET rawDelta == RawDelta(elapsed)
        slowed == SlowMotionUpdate(g, rawDelta)
        delta == rawDelta * slowed.timeScale
        stepped == [ slowed EXCEPT !.rawDelta = rawDelta, !.delta = delta,
                                   !.enemyDelta = EnemyDelta(delta),
                                   !.op = IF hit THEN "hit" ELSE "tick" ]
    IN  IF hit THEN TriggerSlowMotion(stepped, HIT_SLOWMO_SCALE, HIT_SLOWMO_DURATION)
        ELSE stepped

\* clock.getDelta(): the time since the previous frame, 0 for a clock that
\* is not running, a frame of 16 or 50 ms, or a hitch (a pause) of 250 ms
\* or of 5 s.
FrameTimes == { 0, 16, 50, 250, 5000 }

InitTick ==
    /\ bhop = BhopInit
    /\ hist = HistInit
    /\ player = PlayerInit
    /\ used = UsedInit
    /\ nav = NavIdle({})
    /\ mover = MoverInit({})
    /\ agent = AgentInit(FALSE)
    /\ enemy = EnemyInit(FALSE)
    /\ manager = ManagerInit
    /\ game = GameInit
    /\ route = RouteInit

\* A tick in which no enemy touches the player.
GameTick ==
    /\ \E elapsed \in FrameTimes : game' = Ticked(game, elapsed, FALSE)
    /\ UNCHANGED <<bhop, hist, player, used, nav, mover, agent, enemy, manager, route>>

\* A tick in which an enemy touches the player.
GameTickHit ==
    /\ \E elapsed \in FrameTimes : game' = Ticked(game, elapsed, TRUE)
    /\ UNCHANGED <<bhop, hist, player, used, nav, mover, agent, enemy, manager, route>>

NextTick == GameTick \/ GameTickHit

SpecTick == InitTick /\ [][NextTick]_vars

\* C18: in every tick the step time handed to the player (and by it to the
\* chain timing) and the step time an enemy uses lie between 0 and 0.1 s,
\* and the time scale is between 0 and 1.
C18_StepTimeClamped ==
    /\ game.timeScale >= 0 /\ game.timeScale <= ScaleUnit
    /\ game.delta >= 0 /\ game.delta <= MAX_DELTA * ScaleUnit
    /\ game.enemyDelta >= 0 /\ game.enemyDelta <= MAX_DELTA * ScaleUnit

\* A hitch during slow motion: the clock gave more than 0.1 s, the raw step
\* was cut to 0.1 s and then scaled by a time scale below 1.
C18_Witness ==
    /\ game.op = "tick"
    /\ game.rawDelta = MAX_DELTA
    /\ game.slowMoTimer > 0
    /\ game.timeScale > HIT_SLOWMO_SCALE /\ game.timeScale < ScaleUnit
    /\ game.delta = MAX_DELTA * game.timeScale


(***************************************************************************)
(* An enemy following its path (src/unnamed/part_012: setState,            *)
(* executeChaseBehavior, executeFlankBehavior, calculateNewPath,           *)
(* moveAlongPath).  A path is a sequence of waypoints; the position of the *)
(* enemy is not modelled, only whether it has come within reach of the     *)
(* point it is heading for.                                                *)
(***************************************************************************)
\* The longest path findPath returns here, and the number of plan numbers.
MaxRouteLen == 3
MaxPlans == 3

RouteWaypoints == { "a", "b" }

\* The results of findPath: every sequence of at most MaxRouteLen waypoints.
RoutePaths ==
    UNION { [ 1 .. n -> RouteWaypoints ] : n \in 0 .. MaxRouteLen }

RouteStates == { "IDLE", "CHASE", "FLANK", "STUCK" }

NextPlan(r) == (r.plan + 1) % MaxPlans

\* setState(newState), lines 314-327, for newState other than the state.
RouteSetState(r, newState) ==
    IF newState \in { "CHASE", "FLANK" }
    THEN [ r EXCEPT !.state = newState, !.currentPath = << >>,
                    !.currentPathIndex = 0, !.plan = NextPlan(r) ]
    ELSE [ r EXCEPT !.state = newState ]

\* calculateNewPath(targetPosition): path is the result of findPath.
CalculateNewPath(r, path) ==
    [ r EXCEPT !.currentPath = path, !.currentPathIndex = 0,
               !.hasReachedTarget = FALSE, !.plan = NextPlan(r) ]

\* A variant that starts the path over when its end is reached.
AdvancedIndex_Wrap(r) ==
    IF r.currentPathIndex + 1 >= Len(r.currentPath) THEN 0
    ELSE r.currentPathIndex + 1

\* moveAlongPath, line 583: this.currentPathIndex++.
AdvancedIndex(r) == r.currentPathIndex + 1

\* moveAlongPath(delta): near says that the move ended less than 1.0 from
\* the point the enemy was heading for.
MoveAlongPath(r, near) ==
    IF Len(r.currentPath) = 0 \/ ~near THEN r
    ELSE [ r EXCEPT !.currentPathIndex = AdvancedIndex(r),
                    !.hasReachedTarget =
                        IF AdvancedIndex(r) >= Len(r.currentPath) THEN TRUE ELSE @ ]

\* getCurrentTargetPoint(): the waypoint the enemy heads for, "target" for
\* actualTarget.
CurrentTargetPoint(r) ==
    IF Len(r.currentPath) > 0 /\ r.currentPathIndex < Len(r.currentPath)
    THEN r.currentPath[r.currentPathIndex + 1]
    ELSE "target"

\* executeChaseBehavior / executeFlankBehavior: a new path if one is due
\* (replan), then one move along the path.
FollowPath(r, replan, path, near) ==
    MoveAlongPath(IF replan THEN CalculateNewPath(r, path) ELSE r, near)

InitRoute ==
    /\ bhop = BhopInit
    /\ hist = HistInit
    /\ player = PlayerInit
    /\ used = UsedInit
    /\ nav = NavIdle({})
    /\ mover = MoverInit({})
    /\ agent = AgentInit(FALSE)
    /\ enemy = EnemyInit(FALSE)
    /\ manager = ManagerInit
    /\ game = GameInit
    /\ route = RouteInit

\* updateState: the enemy changes to another state.
RouteState ==
    /\ \E newState \in RouteStates \ { route.state } :
          route' = [ RouteSetState(route, newState) EXCEPT !.op = "setState" ]
    /\ UNCHANGED <<bhop, hist, player, used, nav, mover, agent, enemy, manager, game>>

\* update in state CHASE: executeChaseBehavior.
RouteChase ==
    /\ route.state = "CHASE"
    /\ route.currentPathIndex <= MaxRouteLen
    /\ \E replan \in BOOLEAN, near \in BOOLEAN :
       \E path \in IF replan THEN RoutePaths ELSE { << >> } :
          route' = [ FollowPath(route, replan, path, near) EXCEPT !.op = "chase" ]
    /\ UNCHANGED <<bhop, hist, player, used, nav, mover, agent, enemy, manager, game>>

\* update in state FLANK: executeFlankBehavior.
RouteFlank ==
    /\ route.state = "FLANK"
    /\ route.currentPathIndex <= MaxRouteLen
    /\ \E replan \in BOOLEAN, near \in BOOLEAN :
       \E path \in IF replan THEN RoutePaths ELSE { << >> } :
          route' = [ FollowPath(route, replan, path, near) EXCEPT !.op = "flank" ]
    /\ UNCHANGED <<bhop, hist, player, used, nav, mover, agent, enemy, manager, game>>

NextRoute == RouteState \/ RouteChase \/ RouteFlank

SpecRoute == InitRoute /\ [][NextRoute]_vars

\* C19: as long as the enemy keeps its path, the path is the same sequence
\* and the index of the waypoint it heads for does not decrease; the index
\* gets smaller only in a step that replaces the path, where it starts from
\* 0 again.
C19_IndexMonotonicBetweenReplans ==
    [][ /\ route'.plan = route.plan =>
              /\ route'.currentPath = route.currentPath
              /\ route'.currentPathIndex >= route.currentPathIndex
        /\ route'.currentPathIndex < route.currentPathIndex =>
              /\ route'.plan # route.plan
              /\ route'.currentPathIndex <= 1 ]_vars

\* The enemy has passed the last waypoint of a path of three and still has
\* that path: it heads for the target itself.
C19_Witness ==
    /\ route.op = "chase"
    /\ Len(route.currentPath) = MaxRouteLen
    /\ route.currentPathIndex = MaxRouteLen
    /\ route.hasReachedTarget
    /\ CurrentTargetPoint(route) = "target"


(***************************************************************************)
(* The changes of state of an enemy (src/unnamed/part_012).                *)
(***************************************************************************)
\* The changes of state an enemy is to make, as <<from, to>>.
ListedTransitions ==
    { <<"SPAWN", "CHASE">>, <<"SPAWN", "IDLE">>,
      <<"IDLE", "CHASE">>, <<"IDLE", "FLANK">>,
      <<"CHASE", "FLANK">>, <<"FLANK", "CHASE">>,
      <<"CHASE", "IDLE">>, <<"FLANK", "IDLE">>,
      <<"SPAWN", "STUCK">>, <<"IDLE", "STUCK">>,
      <<"CHASE", "STUCK">>, <<"FLANK", "STUCK">>,
      <<"STUCK", "CHASE">>, <<"STUCK", "IDLE">> }

Listed(from, to) == from = to \/ <<from, to>> \in ListedTransitions

\* C21: every change of state of an enemy, by updateStuckDetection (from
\* the state before the update to the state on entry to updateState) and
\* by updateState (from there to the state after the update), is one of the
\* listed changes; so SPAWN is never entered, and neither SPAWN nor STUCK
\* is left for FLANK.
C21_OnlyListedTransitions ==
    [][ /\ Listed(agent.state, agent'.entry)
        /\ Listed(agent'.entry, agent'.state) ]_vars


\* C22: an enemy leaves SPAWN only at an update where more than
\* SPAWN_DURATION has passed since it was created, and then for CHASE if the
\* player is within detectionRange and for IDLE otherwise.
C22_SpawnLastsRiseInDuration ==
    [][ (agent.state = "SPAWN" /\ agent'.state # "SPAWN") =>
            /\ agent'.createdAge > SPAWN_DURATION
            /\ agent'.state = IF agent'.distanceToPlayer <= detectionRange
                              THEN "CHASE" ELSE "IDLE" ]_vars


\* C23 as stated: an enemy found confined at more than STUCK_FRAMES
\* consecutive stuck-detection checks, in whatever state the checks were
\* made, is in STUCK.
C23_ConfinedAnywhereGoesStuck ==
    agent.stillChecks > STUCK_FRAMES => agent.state = "STUCK"

\* C23: an enemy found confined at more than STUCK_FRAMES consecutive
\* stuck-detection checks made in CHASE or FLANK is in STUCK, and the stuck
\* detection moves an enemy to STUCK from CHASE and FLANK only: an enemy in
\* IDLE or SPAWN stays out of STUCK however long it has been confined.
C23_ConfinedChaserGoesStuck ==
    [][ /\ agent'.confinedChecks > STUCK_FRAMES => agent'.entry = "STUCK"
        /\ (agent.state # "STUCK" /\ agent'.entry = "STUCK")
              => agent.state \in {"CHASE", "FLANK"}
        /\ (agent.state \in {"IDLE", "SPAWN"} /\ agent'.op = "update")
              => agent'.entry = agent.state ]_vars

\* An enemy has been found confined at more than STUCK_FRAMES consecutive
\* checks, the last of them made in IDLE, and is not in STUCK.
C23_Witness ==
    /\ agent.op = "update"
    /\ agent.entry = "IDLE"
    /\ agent.stillChecks > STUCK_FRAMES
    /\ agent.confinedChecks = 0
    /\ agent.state # "STUCK"

(***************************************************************************)
(* Jumps and landings of the player.                                       *)
(***************************************************************************)
\* The player is at ground height: not above the height it stands at.
Grounded(p) ==
    p.y <= (IF p.isSliding THEN (HEIGHT * SLIDE_HEIGHT_PCT) \div 100 ELSE HEIGHT)

\* C24: a jump command takes effect (the jump impulse is applied and
\* handleJump is called) only when the player is at ground height.
C24_JumpOnlyWhenGrounded ==
    [][ hist'.op = "jump" => Grounded(player) ]_vars


\* Player.handleLanding ran in the step: the chain controller's lastLandTime
\* is the time of this frame.
LandingFed == hist'.op = "frame" /\ bhop'.sinceLand = 0

\* The player rests on the ground: at ground height, not moving up or down.
OnGround(p) == Grounded(p) /\ p.vy = 0

\* The step is a frame that brought the player to rest on the ground.
TouchedDown == hist'.op = "frame" /\ ~OnGround(player) /\ OnGround(player')

\* C25: a frame that brings the player from the air to the ground feeds a
\* landing to the chain controller; a landing is fed only by such a frame
\* (and by the first ground check of the game); and landings and jumps
\* alternate: a landing follows no landing (or its timeout) without a jump
\* in between, a jump follows no jump.
C25_LandingPerTouchdown ==
    [][ /\ TouchedDown => LandingFed
        /\ LandingFed => (TouchedDown \/ hist.ev = "none")
        /\ LandingFed => hist.ev \in {"none", "jump"}
        /\ hist'.op = "jump" => hist.ev \in {"land", "reset"} ]_vars

(***************************************************************************)
(* The target speed of the player.                                         *)
(***************************************************************************)
\* The speed of the player's movement mode.
BaseSpeed(p) ==
    IF p.isSprinting THEN SPRINT_SPEED
    ELSE IF p.isWalking THEN WALK_SPEED ELSE RUN_SPEED

\* C26: in every frame of a player that is moving and not sliding, the
\* target speed that updateSpeed drives the current speed toward is the
\* speed of the movement mode when no chain is active, and
\* min(MAX_SPEED, speed of the mode x currentBoost) when one is.
C26_TargetSpeedFollowsChain ==
    [][ (hist'.op = "frame" /\ player.moving /\ ~player.isSliding) =>
            player.targetSpeed =
                IF bhop.isBhopping
                THEN Min(MAX_SPEED, (BaseSpeed(player) * bhop.currentBoost) \div 100)
                ELSE BaseSpeed(player) ]_vars


NextSettle == PlayerFrame \/ PlayerJump \/ PlayerTimer

SpecSettle ==
    InitPlayer /\ [][NextSettle]_vars
        /\ WF_vars(PlayerFrame) /\ WF_vars(PlayerTimer)

ChainSettled ==
    ~bhop.isBhopping /\ bhop.chainCount = 0 /\ bhop.comboMeter = 0

\* C28: once the player jumps no more while frames of positive step time keep
\* being taken, eventually chaining is inactive, chainCount = 0 and
\* comboMeter = 0 (and it stays so); and no frame taken while a chain is
\* active lowers comboMeter.
C28_ChainDiesOut ==
    /\ <>[]ChainSettled
    /\ [][ (hist'.op = "frame" /\ bhop.isBhopping) =>
               bhop'.comboMeter >= bhop.comboMeter ]_vars

\* A chain of perfect jumps has been left alone and has died out.
C28_Witness ==
    /\ ChainSettled
    /\ hist.op = "frame"
    /\ used.jumps = MaxJumps
    /\ bhop.lastJumpQuality = "PERFECT"


(***************************************************************************)
(* C29: the boost after a chain has ended.  sinceBroken is the time since  *)
(* lastChainBrokenTime; the first two conjuncts say that this is the time  *)
(* since the chain ended.                                                  *)
(***************************************************************************)
ChainEnds == bhop.isBhopping /\ ~bhop'.isBhopping

\* update(dt), dt ms, takes at least one hundredth off this boost.
DecayVisible(boost, dt) == (boost - BASE_BOOST) * dt >= BOOST_DECAY_DIV

\* C29: lastChainBrokenTime is set exactly when a chain ends, by a failed
\* jump or by the timeout; neither update(dt) nor the timeout reset lowers
\* currentBoost while a chain is active or until more than the
\* momentum-preservation time has passed since the chain ended; after that an
\* update while not chaining lowers currentBoost toward BASE_BOOST (by at
\* least one hundredth when half the excess times dt amounts to one) and never
\* below it.
C29_BoostKeptThroughGrace ==
    [][ /\ ChainEnds => (hist'.op \in {"jump", "reset"} /\ bhop'.sinceBroken = 0)
        /\ bhop'.sinceBroken < bhop.sinceBroken => ChainEnds
        /\ (hist'.op \in {"update", "reset"}
                /\ bhop'.currentBoost < bhop.currentBoost) =>
               (~bhop.isBhopping /\ bhop.sinceBroken > momentumPreservationTime)
        /\ (hist'.op = "update" /\ ~bhop.isBhopping
                /\ bhop.sinceBroken > momentumPreservationTime) =>
               /\ bhop'.currentBoost <= bhop.currentBoost
               /\ bhop'.currentBoost >= BASE_BOOST
               /\ DecayVisible(bhop.currentBoost, hist'.delta) =>
                      bhop'.currentBoost < bhop.currentBoost ]_vars

\* An update inside the grace period after a timeout has ended the chain: the
\* boost of the chain is still there.
C29_Witness ==
    /\ hist.op = "update"
    /\ hist.ev = "reset"
    /\ ~bhop.isBhopping
    /\ bhop.sinceBroken > 0
    /\ bhop.sinceBroken <= momentumPreservationTime
    /\ bhop.currentBoost > BASE_BOOST


(***************************************************************************)
(* C30: the speed of an enemy (src/unnamed/part_012, created by the        *)
(* EntityManager of src/unnamed/part_007).  Type multipliers are in        *)
(* tenths, speed multipliers in MultUnit-ths, the player's speed in        *)
(* hundredths and maxSpeed in SpeedUnit-ths, so that every product below   *)
(* is a whole number.                                                      *)
(***************************************************************************)
ENEMY_BASE_SPEED == 5
maxPossibleSpeed == 15
\* speedScaleFactor = 1.0 + Math.min(playerSpeed / 25, 0.75), line 388, for a
\* player speed in hundredths: (SPEED_PER_FACTOR + Min(speed, SPEED_FACTOR_CAP))
\* / SPEED_PER_FACTOR.
SPEED_PER_FACTOR == 2500
SPEED_FACTOR_CAP == 1875

TypeUnit == 10
MultUnit == TypeUnit * LevelUnit
SpeedUnit == MultUnit * SPEED_PER_FACTOR

\* EntityManager constructor, lines 32-36: speedMultiplier of each type.
EnemyTypes == {"standard", "fast", "tank"}

TypeMultiplier(type) ==
    CASE type = "standard" -> 10
      [] type = "fast" -> 13
      [] type = "tank" -> 8

\* createEnemy(type), lines 61-95, and the Enemy constructor, lines 13 and
\* 24: the speed multiplier is the type's multiplier times the difficulty
\* level of this moment.  playerSpeed and playerChaining record the player
\* speed passed to the last update and whether the player was chaining then.
\* createEnemy passes three arguments, so the constructor's fourth, game,
\* takes its default null (hasGame FALSE); actualTarget is the zero vector of
\* line 30.  playerPosition and moveDirection record the player's position
\* and movement direction at the last update.
CreateEnemy(m, type) ==
    LET scaledSpeedMultiplier == TypeMultiplier(type) * m.difficultyLevel
    IN  AgentInit(TRUE) @@
          [ enemyType |-> type,
            speedMultiplier |-> scaledSpeedMultiplier,
            maxSpeed |-> ENEMY_BASE_SPEED * scaledSpeedMultiplier * SPEED_PER_FACTOR,
            playerSpeed |-> 0, playerChaining |-> FALSE,
            hasGame |-> FALSE, actualTarget |-> <<0, 0>>,
            playerPosition |-> <<0, 0>>, moveDirection |-> <<0, 0>> ]

\* executeChaseBehavior, lines 388-389.
ExecuteChaseBehavior(a, playerSpeed) ==
    LET speedScaleFactor == SPEED_PER_FACTOR + Min(playerSpeed, SPEED_FACTOR_CAP)
    IN  [ a EXCEPT !.maxSpeed =
              Min(maxPossibleSpeed * SpeedUnit,
                  ENEMY_BASE_SPEED * a.speedMultiplier * speedScaleFactor) ]

\* Player speeds (hundredths) passed to Enemy.update: standing, running, and
\* a boosted run.
ChasePlayerSpeeds == {0, RUN_SPEED, (RUN_SPEED * MAX_BOOST) \div 100}

\* The states in which update runs a behaviour; only CHASE sets maxSpeed
\* (update, line 160).
BehaviourStates == {"IDLE", "CHASE", "FLANK"}

InitSpeed ==
    /\ bhop = BhopInit
    /\ hist = HistInit
    /\ player = PlayerInit
    /\ used = UsedInit
    /\ nav = NavIdle({})
    /\ mover = MoverInit({})
    /\ agent = AgentInit(FALSE)
    /\ enemy = EnemyInit(FALSE)
    /\ manager = ManagerInit
    /\ game = GameInit
    /\ route = RouteInit

\* EntityManager.createEnemy.
SpeedSpawn ==
    /\ ~agent.live
    /\ \E type \in EnemyTypes : agent' = CreateEnemy(manager, type)
    /\ UNCHANGED <<bhop, hist, player, used, nav, mover, enemy, manager, game, route>>

\* EntityManager.update, lines 338-345: Enemy.update with the player's
\* current speed; the state machine leaves the enemy in state st.
SpeedUpdate ==
    /\ agent.live
    /\ \E st \in BehaviourStates, ps \in ChasePlayerSpeeds, chaining \in BOOLEAN :
          agent' = [ (IF st = "CHASE" THEN ExecuteChaseBehavior(agent, ps) ELSE agent)
                       EXCEPT !.op = "update", !.entry = agent.state, !.state = st,
                              !.playerSpeed = ps, !.playerChaining = chaining ]
    /\ UNCHANGED <<bhop, hist, player, used, nav, mover, enemy, manager, game, route>>

\* EntityManager.update calls updateDifficulty; the level is followed for
\* MaxLevelSteps raises above 1.0.
MaxLevelSteps == 3

SpeedDifficulty ==
    /\ manager.difficultyLevel < LevelUnit + MaxLevelSteps
    /\ ManagerUpdate

NextSpeed ==
    SpeedSpawn \/ SpeedUpdate \/ ManagerJump \/ SpeedDifficulty \/ ManagerHit

SpecSpeed == InitSpeed /\ [][NextSpeed]_vars

\* The scale factor of C30 for a live enemy, in SpeedUnit-ths: the type's
\* multiplier times the current difficulty level, times the player-speed
\* factor while the player is chaining and 1 otherwise.
ClaimedScale(a, m) ==
    TypeMultiplier(a.enemyType) * m.difficultyLevel
        * (SPEED_PER_FACTOR
             + (IF a.playerChaining THEN Min(a.playerSpeed, SPEED_FACTOR_CAP) ELSE 0))

\* C30: after every update that runs the chase behaviour, a live enemy's
\* effective speed is its base speed times a scale factor that follows the
\* difficulty level of the moment (also for an enemy created before the level
\* changed) and that grows with the player's speed only while the player is
\* chaining.
C30_SpeedFollowsLevelAndChain ==
    (agent.live /\ agent.op = "update" /\ agent.state = "CHASE") =>
        agent.maxSpeed = ENEMY_BASE_SPEED * ClaimedScale(agent, manager)


(***************************************************************************)
(* C31: the goal of a replan in CHASE.  Positions (x, z) are in            *)
(* hundredths, like the player's speed; the player's movement direction is *)
(* a unit vector along an axis, or the zero vector.                        *)
(***************************************************************************)
\* predictPlayerPosition, line 480: predictionTime = 0.5 s, in ms.
PREDICTION_TIME == 500

\* playerPosition + moveDirection * (playerSpeed * predictionTime).
Extrapolated(pos, dir, speed) ==
    << pos[1] + dir[1] * ((speed * PREDICTION_TIME) \div 1000),
       pos[2] + dir[2] * ((speed * PREDICTION_TIME) \div 1000) >>

\* predictPlayerPosition(playerPosition, playerSpeed), lines 479-494: the
\* extrapolation is made only if the enemy has a game object to ask the
\* player's movement direction from.
PredictPlayerPosition(a, pos, dir, speed) ==
    IF a.hasGame THEN Extrapolated(pos, dir, speed) ELSE pos

\* Player positions, movement directions and speeds of a frame.
PredictPositions == { <<0, 0>>, <<300, -200>> }
PredictDirections == { <<0, 0>>, <<1, 0>>, <<0, -1>> }
PredictSpeeds == { 0, RUN_SPEED }

InitPredict ==
    /\ bhop = BhopInit
    /\ hist = HistInit
    /\ player = PlayerInit
    /\ used = UsedInit
    /\ nav = NavIdle({})
    /\ mover = MoverInit({})
    /\ agent = AgentInit(FALSE)
    /\ enemy = EnemyInit(FALSE)
    /\ manager = ManagerInit
    /\ game = GameInit
    /\ route = RouteInit

\* EntityManager.createEnemy; updateState then brings the enemy to CHASE.
PredictSpawn ==
    /\ ~agent.live
    /\ \E type \in EnemyTypes : agent' = CreateEnemy(manager, type)
    /\ route' = RouteSetState(RouteInit, "CHASE")
    /\ UNCHANGED <<bhop, hist, player, used, nav, mover, enemy, manager, game>>

\* update in state CHASE: executeChaseBehavior(delta, playerPosition,
\* playerSpeed), with or without a replan.
PredictChase ==
    /\ agent.live
    /\ route.currentPathIndex <= MaxRouteLen
    /\ \E pos \in PredictPositions, dir \in PredictDirections,
          speed \in PredictSpeeds, replan \in BOOLEAN, near \in BOOLEAN :
       \E path \in IF replan THEN RoutePaths ELSE { << >> } :
          /\ agent' = [ ExecuteChaseBehavior(agent, speed) EXCEPT
                          !.op = IF replan THEN "replan" ELSE "chase",
                          !.playerPosition = pos, !.moveDirection = dir,
                          !.playerSpeed = speed,
                          !.actualTarget =
                              IF replan
                              THEN PredictPlayerPosition(agent, pos, dir, speed)
                              ELSE @ ]
          /\ route' = [ FollowPath(route, replan, path, near) EXCEPT !.op = "chase" ]
    /\ UNCHANGED <<bhop, hist, player, used, nav, mover, enemy, manager, game>>

NextPredict == PredictSpawn \/ PredictChase

SpecPredict == InitPredict /\ [][NextPredict]_vars

\* C31: after a replan in CHASE the goal given to the pathfinder is the
\* player's position moved along its movement direction by speed times the
\* lookahead time.
C31_GoalIsExtrapolated ==
    (agent.live /\ agent.op = "replan") =>
        agent.actualTarget =
            Extrapolated(agent.playerPosition, agent.moveDirection, agent.playerSpeed)


(***************************************************************************)
(* C32: an empty path.  The path fields of the enemy with the time (ms)    *)
(* since lastPathUpdateTime; moved says that the last update made a move   *)
(* along the path, drew that its draw of Math.random() fell below the      *)
(* update priority (executeChaseBehavior, line 395); retried that it asked  *)
(* for a path while it held the empty path of its previous request.        *)
(***************************************************************************)
pathRecalculationInterval == 750
FlankInterval == (pathRecalculationInterval * 3) \div 2
\* Times since the last path update saturate here.
IntervalCap == FlankInterval + 1

\* Wall-clock time (ms) between two updates of the enemy.
RetryFrameTimes == {250}

RetryInit ==
    RouteInit @@ [ sinceUpdate |-> IntervalCap, moved |-> FALSE, drew |-> FALSE,
                   retried |-> FALSE ]

\* setState, line 326: lastPathUpdateTime = 0 on entering CHASE or FLANK.
RetrySetState(r, newState) ==
    [ RouteSetState(r, newState) EXCEPT
        !.sinceUpdate = IF newState \in { "CHASE", "FLANK" } THEN IntervalCap ELSE @,
        !.moved = FALSE, !.drew = FALSE, !.retried = FALSE ]

\* A variant of moveAlongPath that heads for actualTarget when it has no path.
MoveAttempted_Always(r) == TRUE

\* moveAlongPath, lines 536-538: without a path the call returns at once.
MoveAttempted(r) == r.currentPath # << >>

\* The planning interval of the state: lines 392 and 423.
PlanningInterval(state) ==
    IF state = "FLANK" THEN FlankInterval ELSE pathRecalculationInterval

\* executeChaseBehavior / executeFlankBehavior after dt ms: a new path if the
\* interval has passed (and, in CHASE, the draw allows it), then
\* moveAlongPath.
RetryFollow(r, dt, draw, path, near) ==
    LET aged == [ r EXCEPT !.sinceUpdate = Min(IntervalCap, @ + dt) ]
        replan == /\ aged.sinceUpdate > PlanningInterval(r.state)
                  /\ (r.state = "FLANK" \/ draw)
        planned == IF replan
                   THEN [ CalculateNewPath(aged, path) EXCEPT !.sinceUpdate = 0 ]
                   ELSE aged
    IN  [ MoveAlongPath(planned, near /\ MoveAttempted(planned)) EXCEPT
            !.moved = MoveAttempted(planned), !.drew = draw,
            !.retried = /\ replan
                        /\ r.currentPath = << >>
                        /\ r.sinceUpdate < IntervalCap ]

InitRetry ==
    /\ bhop = BhopInit
    /\ hist = HistInit
    /\ player = PlayerInit
    /\ used = UsedInit
    /\ nav = NavIdle({})
    /\ mover = MoverInit({})
    /\ agent = AgentInit(FALSE)
    /\ enemy = EnemyInit(FALSE)
    /\ manager = ManagerInit
    /\ game = GameInit
    /\ route = RetryInit

\* updateState: the enemy changes to another state.
RetryState ==
    /\ \E newState \in RouteStates \ { route.state } :
          route' = [ RetrySetState(route, newState) EXCEPT !.op = "setState" ]
    /\ UNCHANGED <<bhop, hist, player, used, nav, mover, agent, enemy, manager, game>>

\* update in CHASE or FLANK; path is what findPath returns if it is asked.
RetryUpdate ==
    /\ route.state \in { "CHASE", "FLANK" }
    /\ route.currentPathIndex <= MaxRouteLen
    /\ \E dt \in RetryFrameTimes, draw \in BOOLEAN, near \in BOOLEAN,
          path \in RoutePaths :
          route' = [ RetryFollow(route, dt, draw, path, near) EXCEPT !.op = "follow" ]
    /\ UNCHANGED <<bhop, hist, player, used, nav, mover, agent, enemy, manager, game>>

\* update in SPAWN, IDLE or STUCK: no path is followed.
RetryOther ==
    /\ route.state \notin { "CHASE", "FLANK" }
    /\ \E dt \in RetryFrameTimes :
          route' = [ route EXCEPT !.sinceUpdate = Min(IntervalCap, @ + dt),
                                  !.moved = FALSE, !.drew = FALSE,
                                  !.retried = FALSE, !.op = "other" ]
    /\ UNCHANGED <<bhop, hist, player, used, nav, mover, agent, enemy, manager, game>>

NextRetry == RetryState \/ RetryUpdate \/ RetryOther

SpecRetry == InitRetry /\ [][NextRetry]_vars

\* The update of this step asked findPath for a path.
Replanned == route'.op = "follow" /\ route'.plan # route.plan

\* C32: an update in CHASE or FLANK that is left with an empty path, whether
\* the pathfinder has just returned it or it was there before, makes no move
\* along the path and leaves the path index where planning put it; the empty
\* path does not stand in the way of the next request: once the planning
\* interval of the state has passed since the last request, the update asks
\* for a new path (in CHASE: the first update whose priority draw succeeds),
\* and it does not ask earlier.
C32_EmptyPathIsRetried ==
    [][ route'.op = "follow" =>
          /\ route'.currentPath = << >> =>
                 /\ ~route'.moved
                 /\ route'.currentPathIndex =
                        IF Replanned THEN 0 ELSE route.currentPathIndex
                 /\ ~route'.hasReachedTarget \/ route.hasReachedTarget
          /\ \A dt \in RetryFrameTimes :
                 Replanned <=>
                     /\ route.sinceUpdate + dt > PlanningInterval(route.state)
                     /\ (route.state = "FLANK" \/ route'.drew) ]_vars

\* In CHASE the pathfinder had returned an empty path; a planning interval
\* later the enemy has asked again and has got an empty path again: the
\* update has made no move.
C32_Witness ==
    /\ route.op = "follow"
    /\ route.state = "CHASE"
    /\ route.currentPath = << >>
    /\ route.sinceUpdate = 0
    /\ route.retried
    /\ route.drew
    /\ ~route.moved


(***************************************************************************)
(* C33: the horizontal step of Player.update from the movement keys.       *)
(* Directions are in DirUnit-ths, speeds and the knockback velocity in     *)
(* hundredths, positions in units of 0.2 as above.  normalizedZero records *)
(* that normalize() was called on a vector of length zero.                 *)
(***************************************************************************)
DirUnit == 10000
\* 1 / sqrt(2) in DirUnit-ths.
DIAGONAL_DIR == 7071
knockbackRecoveryRate == 5
\* knockbackVelocity.lengthSq() > 0.01, line 311, in hundredths squared.
KNOCKBACK_REST_SQ == 100
\* Hundredths x ms in one position unit of 0.2.
StrideDiv == 20000

NoKeys ==
    [ moveForward |-> FALSE, moveBackward |-> FALSE,
      moveLeft |-> FALSE, moveRight |-> FALSE ]

\* Key states given to setMovementFromInput: none, two opposing keys, two
\* keys at right angles, and two opposing keys with a third.
StrideKeys ==
    { NoKeys,
      [ NoKeys EXCEPT !.moveForward = TRUE, !.moveBackward = TRUE ],
      [ NoKeys EXCEPT !.moveForward = TRUE, !.moveRight = TRUE ],
      [ NoKeys EXCEPT !.moveLeft = TRUE, !.moveRight = TRUE, !.moveBackward = TRUE ] }

Num(b) == IF b THEN 1 ELSE 0

\* v * num / den, rounded toward zero.
Scaled(v, num, den) == Sign(v) * ((Abs(v) * num) \div den)

\* getMovementDirection, lines 396-397: the direction of the keys.
KeyDirection(keys) ==
    << Num(keys.moveRight) - Num(keys.moveLeft),
       Num(keys.moveBackward) - Num(keys.moveForward) >>

\* Vector3.normalize() on a vector with components in {-1, 0, 1}.
Normalized(v) ==
    IF v[1] # 0 /\ v[2] # 0
    THEN << v[1] * DIAGONAL_DIR, v[2] * DIAGONAL_DIR >>
    ELSE << v[1] * DirUnit, v[2] * DirUnit >>

\* makeRotationY for a yaw of turns quarter turns, applied to (x, z).
Rotated(v, turns) ==
    IF turns = 0 THEN v
    ELSE IF turns = 1 THEN << v[2], 0 - v[1] >>
    ELSE IF turns = 2 THEN << 0 - v[1], 0 - v[2] >>
    ELSE << 0 - v[2], v[1] >>

\* A variant of getMovementDirection that normalizes whatever the keys give.
MustNormalize_Always(v) == TRUE

\* getMovementDirection, line 400: normalize only if there is movement.
MustNormalize(v) == v[1] # 0 \/ v[2] # 0

\* getMovementDirection(): the direction, and whether a zero vector was
\* normalized on the way.
GetMovementDirection(keys, turns) ==
    LET raw == KeyDirection(keys)
    IN  [ direction |-> Rotated(IF MustNormalize(raw) THEN Normalized(raw) ELSE raw,
                                turns),
          normalizedZero |-> MustNormalize(raw) /\ raw = <<0, 0>> ]

\* update, lines 311-315: the knockback velocity <<x, y, z>> after dt ms.
RecoveredKnockback(k, dt) ==
    IF k[1] * k[1] + k[2] * k[2] + k[3] * k[3] > KNOCKBACK_REST_SQ
    THEN [ i \in 1 .. 3 |-> Scaled(k[i], 1000 - knockbackRecoveryRate * dt, 1000) ]
    ELSE <<0, 0, 0>>

\* update, lines 318-327: the displacement of the frame in position units.
StrideDisplacement(dir, speed, k, dt) ==
    << Scaled(Scaled(dir[1], speed, DirUnit) + k[1], dt, StrideDiv),
       Scaled(Scaled(dir[2], speed, DirUnit) + k[3], dt, StrideDiv) >>

\* applyKnockback(direction, force), lines 254-257, direction a unit vector
\* along an axis.
KnockbackVelocity(direction, force) ==
    << direction[1] * force, force \div 2, direction[2] * force >>

StrideInit(obs) ==
    MoverInit(obs) @@
      [ keys |-> NoKeys, knockbackVelocity |-> <<0, 0, 0>>,
        normalizedZero |-> FALSE, speed |-> 0 ]

\* Frame times (ms), yaws (quarter turns) and speeds (hundredths) of a frame,
\* the direction of a knockback, and the scene: a wall.
StrideFrameTimes == {100}
StrideYaws == {0, 1}
StrideSpeeds == {0, RUN_SPEED}
KnockbackDirections == { <<1, 0>> }
StrideScenes == { { Box(3, -3, 2, 6) } }

InitStride ==
    /\ bhop = BhopInit
    /\ hist = HistInit
    /\ player = PlayerInit
    /\ used = UsedInit
    /\ nav = NavIdle({})
    /\ \E obs \in StrideScenes : mover = StrideInit(obs)
    /\ agent = AgentInit(FALSE)
    /\ enemy = EnemyInit(FALSE)
    /\ AtRest

\* setMovementFromInput(keyStates).
StrideInput ==
    /\ used.keys < MaxKeyChanges
    /\ used' = [ used EXCEPT !.keys = @ + 1 ]
    /\ \E keys \in StrideKeys \ { mover.keys } :
          mover' = [ mover EXCEPT !.keys = keys, !.op = "input" ]
    /\ UNCHANGED <<bhop, hist, player, nav, agent, enemy, rest>>

\* EntityManager: an enemy touches the player, applyKnockback(direction, 15).
StrideKnockback ==
    /\ used.knockbacks < MaxKnockbacks
    /\ used' = [ used EXCEPT !.knockbacks = @ + 1 ]
    /\ \E direction \in KnockbackDirections :
          mover' = [ mover EXCEPT
                       !.knockbackVelocity = KnockbackVelocity(direction, KNOCKBACK_FORCE),
                       !.op = "knockback" ]
    /\ UNCHANGED <<bhop, hist, player, nav, agent, enemy, rest>>

\* Player.update(delta): the horizontal step and the boundary check.
StrideFrame ==
    \E dt \in StrideFrameTimes, turns \in StrideYaws, speed \in StrideSpeeds :
        LET moveDirection == GetMovementDirection(mover.keys, turns)
            k == RecoveredKnockback(mover.knockbackVelocity, dt)
            d == StrideDisplacement(moveDirection.direction, speed, k, dt)
        IN  /\ mover' =
                 [ mover EXCEPT
                     !.pos = EnforceBoundaries(
                                 ImprovedCollisionHandling(mover.pos, d, mover.obstacles)),
                     !.knockbackVelocity = k,
                     !.normalizedZero = moveDirection.normalizedZero,
                     !.speed = speed,
                     !.op = "Player.update", !.from = mover.pos, !.d = d ]
            /\ UNCHANGED notMover

NextStride == StrideInput \/ StrideKnockback \/ StrideFrame

SpecStride == InitStride /\ [][NextStride]_vars

\* The keys give no direction: none is set, or those set cancel.
ZeroInput(keys) ==
    /\ keys.moveForward = keys.moveBackward
    /\ keys.moveLeft = keys.moveRight

\* C33: a frame taken with a key state of zero-length direction and with no
\* knockback velocity left normalizes no zero vector and leaves the player's
\* horizontal position unchanged, whatever the current speed is.
C33_ZeroInputStandsStill ==
    [][ (mover'.op = "Player.update" /\ ZeroInput(mover.keys)) =>
           /\ ~mover'.normalizedZero
           /\ (mover'.knockbackVelocity[1] = 0 /\ mover'.knockbackVelocity[3] = 0)
                  => mover'.pos = mover.pos ]_vars

\* A frame taken at running speed with opposing keys held, after the player
\* had moved away from its start: it has stayed where it was.
C33_Witness ==
    /\ mover.op = "Player.update"
    /\ mover.keys.moveForward /\ mover.keys.moveBackward
    /\ mover.speed = RUN_SPEED
    /\ mover.knockbackVelocity = <<0, 0, 0>>
    /\ mover.pos # MoverInit({}).pos
    /\ mover.pos = mover.from


(***************************************************************************)
(* EntityManager.update over several enemies (src/unnamed/part_007, lines  *)
(* 325-351): Player.update, manageEnemySpawns, then Enemy.update for each  *)
(* enemy in turn.  THREE.Vector3 objects are kept in manager.vectors under *)
(* the name of the field that holds them, so that a write through one      *)
(* reference is seen through every other: <<"player", 0>> is the player's  *)
(* position, <<"given", 0>> the playerPosition vector handed to the update *)
(* in progress, <<"actualTarget", i>> and <<"previousTarget", i>> the      *)
(* target vectors of enemy i.  cursor is the place of the for loop: 0      *)
(* outside update, else the index of the next enemy to update.             *)
(***************************************************************************)
\* The enemies of the crowd, and the number of calls of update followed.
Crowd == { 1, 2 }
MaxRounds == 2

CrowdPaths == { << >>, << "a" >> }
CrowdFrameDeltas == {1500}

\* calculateFlankPosition, lines 517-525: the offsets from the player's
\* position that the two random draws give (hundredths).
FlankOffsets == { <<800, 0>> }

VectorIds ==
    { <<"player", 0>>, <<"given", 0>> }
        \cup { <<f, i>> : f \in {"actualTarget", "previousTarget"}, i \in Crowd }

CrowdInit ==
    ManagerInit @@
      [ enemies |-> << >>, vectors |-> [ id \in VectorIds |-> <<0, 0>> ],
        cursor |-> 0, rounds |-> 0, frameDelta |-> 0, updated |-> 0 ]

\* A variant in which every enemy holds the same actualTarget object.
PlannedVectors_Shared(vs, i, targetPosition) ==
    [ id \in DOMAIN vs |->
        IF id[1] = "actualTarget" THEN targetPosition
        ELSE IF id = <<"previousTarget", i>> THEN vs[<<"actualTarget", i>>]
        ELSE vs[id] ]

\* calculateNewPath, lines 502-503: previousTarget.copy(actualTarget),
\* actualTarget.copy(targetPosition); both vectors are the enemy's own, made
\* in its constructor (lines 30-31), and copy writes the components.
PlannedVectors(vs, i, targetPosition) ==
    [ vs EXCEPT ![<<"previousTarget", i>>] = vs[<<"actualTarget", i>>],
                ![<<"actualTarget", i>>] = targetPosition ]

\* The target handed to calculateNewPath: in CHASE the result of
\* predictPlayerPosition, a clone of the given vector; in FLANK a new vector
\* beside the player (lines 520-525).
PlanTarget(e, given, offset) ==
    IF e.r.state = "FLANK"
    THEN << given[1] + offset[1], given[2] + offset[2] >>
    ELSE PredictPlayerPosition(e.a, given, <<0, 0>>, e.a.playerSpeed)

\* An enemy of the crowd: the fields of the state machine (a) and of the
\* path following (r).
CrowdEnemy(m, type) ==
    [ a |-> CreateEnemy(m, type), r |-> RouteInit ]

\* Enemy.update(delta, playerPosition, scene, playerSpeed), lines 138-172, for
\* enemy i of world m: stuck detection, updateState, then the behaviour of
\* the state.  in holds the values of the random draws and of the geometry.
EnemyUpdated(m, i, playerSpeed, in) ==
    LET e == m.enemies[i]
        detected == UpdateStuckDetection(AgentClock(e.a, m.frameDelta))
        decided == UpdateState(detected, in.distanceToPlayer, in.random)
        entered == IF decided.state # e.r.state
                   THEN RouteSetState(e.r, decided.state) ELSE e.r
        following == decided.state \in { "CHASE", "FLANK" }
        chased == IF decided.state = "CHASE"
                  THEN ExecuteChaseBehavior(decided, playerSpeed) ELSE decided
        spoken == [ chased EXCEPT !.playerSpeed = playerSpeed ]
        replan == following /\ in.replan
        followed == IF following
                    THEN FollowPath(entered, replan, in.path, in.near)
                    ELSE entered
        moved == [ Behave(spoken, in.to, FALSE) EXCEPT
                     !.op = "update", !.entry = detected.state,
                     !.distanceToPlayer = in.distanceToPlayer ]
        target == PlanTarget([ a |-> spoken, r |-> entered ],
                             m.vectors[<<"given", 0>>], in.offset)
    IN  [ m EXCEPT
            !.enemies[i] = [ a |-> moved, r |-> [ followed EXCEPT !.op = "update" ] ],
            !.vectors = IF replan THEN PlannedVectors(@, i, target) ELSE @ ]

\* What one Enemy.update draws: the random numbers, the measured distance,
\* whether a new path is due and what findPath returns, and where the move
\* ends.
CrowdInputs ==
    [ distanceToPlayer : PlayerDistances, random : {0, 900},
      replan : BOOLEAN, path : CrowdPaths, near : BOOLEAN,
      to : {stuckDetectionDistance}, offset : FlankOffsets ]

InitCrowd ==
    /\ bhop = BhopInit
    /\ hist = HistInit
    /\ player = PlayerInit
    /\ used = UsedInit
    /\ nav = NavIdle({})
    /\ mover = MoverInit({})
    /\ agent = AgentInit(FALSE)
    /\ enemy = EnemyInit(FALSE)
    /\ manager = CrowdInit
    /\ game = GameInit
    /\ route = RouteInit

\* EntityManager.update up to the for loop: Player.update moves the player,
\* manageEnemySpawns may create an enemy.
CrowdBegin ==
    /\ manager.cursor = 0
    /\ manager.rounds < MaxRounds
    /\ \E delta \in CrowdFrameDeltas, pos \in PredictPositions,
          speed \in PredictSpeeds, spawn \in BOOLEAN, type \in {"fast"} :
          /\ spawn => Len(manager.enemies) < Cardinality(Crowd)
          /\ player' = [ player EXCEPT !.currentSpeed = speed ]
          /\ manager' =
               [ manager EXCEPT
                   !.op = "EntityManager.update", !.cursor = 1,
                   !.rounds = @ + 1, !.frameDelta = delta, !.updated = 0,
                   !.vectors[<<"player", 0>>] = pos,
                   !.enemies = IF spawn THEN Append(@, CrowdEnemy(manager, type))
                               ELSE @ ]
    /\ UNCHANGED <<bhop, hist, used, nav, mover, agent, enemy, game, route>>

\* One turn of the for loop, lines 341-347: a new vector takes the player's
\* position and is handed to Enemy.update.
CrowdUpdate ==
    /\ manager.cursor \in 1 .. Len(manager.enemies)
    /\ \E in \in CrowdInputs :
          LET i == manager.cursor
              handed == [ manager EXCEPT
                            !.vectors[<<"given", 0>>] =
                                manager.vectors[<<"player", 0>>] ]
              m == EnemyUpdated(handed, i, player.currentSpeed, in)
          IN  /\ in.replan \/ in.path = << >>
              /\ handed.enemies[i].r.currentPathIndex <= MaxRouteLen
              /\ m.enemies[i].a.stuckCounter < 2 * MaxStuckCounter
              /\ manager' = [ m EXCEPT !.op = "Enemy.update", !.updated = i,
                                       !.cursor = i + 1 ]
    /\ UNCHANGED <<bhop, hist, player, used, nav, mover, agent, enemy, game, route>>

\* The loop is over; checkPlayerEnemyCollisions and the return.
CrowdEnd ==
    /\ manager.cursor > Len(manager.enemies)
    /\ manager' = [ manager EXCEPT !.op = "return", !.cursor = 0, !.updated = 0 ]
    /\ UNCHANGED <<bhop, hist, player, used, nav, mover, agent, enemy, game, route>>

NextCrowd == CrowdBegin \/ CrowdUpdate \/ CrowdEnd

SpecCrowd == InitCrowd /\ [][NextCrowd]_vars

\* The vectors that belong to enemy j.
OwnVectors(m, j) ==
    << m.vectors[<<"actualTarget", j>>], m.vectors[<<"previousTarget", j>>] >>

\* C34: an Enemy.update of enemy i leaves every other enemy's fields and
\* vectors as they were, changes nothing of the player (its state and its
\* position vector), and leaves the position vector it was given equal to
\* the player's position it was made from.
C34_UpdateTouchesOnlyItsAgent ==
    [][ manager'.op = "Enemy.update" =>
          /\ \A j \in 1 .. Len(manager.enemies) :
                j # manager'.updated =>
                   /\ manager'.enemies[j] = manager.enemies[j]
                   /\ OwnVectors(manager', j) = OwnVectors(manager, j)
          /\ Len(manager'.enemies) = Len(manager.enemies)
          /\ player' = player
          /\ manager'.vectors[<<"player", 0>>] = manager.vectors[<<"player", 0>>]
          /\ manager'.vectors[<<"given", 0>>] = manager.vectors[<<"player", 0>>] ]_vars

\* Two enemies with different targets: the first flanks, the second has just
\* been updated and planned a path to the position it was given.
C34_Witness ==
    /\ manager.op = "Enemy.update"
    /\ manager.updated = 2
    /\ Len(manager.enemies) = 2
    /\ manager.enemies[1].r.state = "FLANK"
    /\ manager.enemies[2].r.state = "CHASE"
    /\ manager.enemies[2].r.currentPath # << >>
    /\ manager.vectors[<<"given", 0>>] = <<300, -200>>
    /\ manager.vectors[<<"actualTarget", 2>>] = manager.vectors[<<"given", 0>>]
    /\ manager.vectors[<<"actualTarget", 1>>] \notin { <<0, 0>>, <<300, -200>> }
    /\ player.currentSpeed = RUN_SPEED


(***************************************************************************)
(* PathfindingService.findPath of src/unnamed/part_004 (lines 116-219),    *)
(* the pathfinder of the modular Enemy.  Positions are in tenths of a unit *)
(* on the plane of the ray (start, end and the obstacles' centres at one   *)
(* height); an obstacle is the footprint of its box.  A call and each call *)
(* it makes of itself through generateSimplifiedPath is one step; depth    *)
(* counts the calls on the stack and stays at MaxSeekDepth from there on.  *)
(***************************************************************************)
MaxSeekDepth == 4

\* perpendicular.multiplyScalar(5), line 196, in tenths.
SIDE_STEP == 50

\* |num| * SIDE_STEP / sqrt(len2), rounded to the nearest tenth.
SideComponent(num, len2) ==
    CHOOSE r \in 0 .. SIDE_STEP :
        /\ r = 0 \/ (2 * r - 1) * (2 * r - 1) * len2
                        <= 4 * SIDE_STEP * SIDE_STEP * num * num
        /\ 4 * SIDE_STEP * SIDE_STEP * num * num < (2 * r + 1) * (2 * r + 1) * len2

\* Lines 193-196: perpendicular = (-direction.z, 0, direction.x) times 5,
\* direction being end - start normalized.
SideStep(startPos, endPos) ==
    LET dx == endPos[1] - startPos[1]
        dz == endPos[2] - startPos[2]
        len2 == dx * dx + dz * dz
    IN  << (0 - Sign(dz)) * SideComponent(dz, len2),
           Sign(dx) * SideComponent(dx, len2) >>

\* The parameter (a fraction of the way from a to b) at which the segment
\* enters the box.
EntryTime(a, b, box) ==
    LET dx == b[1] - a[1]
        dz == b[2] - a[2]
        cons == { << 0 - dx, a[1] - box.x0 >>, << dx, box.x1 - a[1] >>,
                  << 0 - dz, a[2] - box.z0 >>, << dz, box.z1 - a[2] >> }
        lo == { <<0, 1>> } \cup { << 0 - c[2], 0 - c[1] >> : c \in { k \in cons : k[1] < 0 } }
    IN  CHOOSE l \in lo : \A m \in lo : m[1] * l[2] <= l[1] * m[2]

\* raycaster.intersectObjects(this.obstacles): the obstacles whose front
\* faces the ray from a meets before b.
Intersections(a, b, obs) ==
    { box \in obs : FacesFront(a, b, box) /\ SegmentMeetsBox(a, b, box) }

\* intersections[0].object, line 189: the nearest hit.
FirstObstacle(a, b, obs) ==
    CHOOSE box \in Intersections(a, b, obs) :
        \A other \in Intersections(a, b, obs) :
            EntryTime(a, b, box)[1] * EntryTime(a, b, other)[2]
                <= EntryTime(a, b, other)[1] * EntryTime(a, b, box)[2]

\* obstacle.position: the centre of the box.
ObstaclePosition(box) == << (box.x0 + box.x1) \div 2, (box.z0 + box.z1) \div 2 >>

DistanceSq(a, b) ==
    (a[1] - b[1]) * (a[1] - b[1]) + (a[2] - b[2]) * (a[2] - b[2])

\* generateSimplifiedPath, lines 188-210: the waypoint beside the first
\* obstacle, on the side nearer to the end.
Waypoint(startPos, endPos, obs) ==
    LET obstaclePos == ObstaclePosition(FirstObstacle(startPos, endPos, obs))
        side == SideStep(startPos, endPos)
        leftSide == << obstaclePos[1] + side[1], obstaclePos[2] + side[2] >>
        rightSide == << obstaclePos[1] - side[1], obstaclePos[2] - side[2] >>
    IN  IF DistanceSq(leftSide, endPos) < DistanceSq(rightSide, endPos)
        THEN leftSide ELSE rightSide

\* hasDirectPath, lines 145-158.
HasDirectPath(startPos, endPos, obs) == Intersections(startPos, endPos, obs) = { }

\* The footprints (tenths): a box of createBoxes (size 2 to 5), a ramp of
\* createRamps (8 by 12), and two boxes.
SeekScenes ==
    { { Box(-20, -20, 40, 40) },
      { Box(-40, -60, 80, 120) },
      { Box(-20, -20, 40, 40), Box(60, 40, 40, 40) } }

SeekPoints ==
    { <<-100, 0>>, <<100, 0>>, <<0, -100>>, <<0, 100>>, <<-48, 14>>, <<-20, 110>>,
      <<-100, -100>>, <<120, 80>> }

SeekInit(obs) ==
    NavIdle(obs) @@ [ op |-> "init", depth |-> 0, from |-> <<0, 0>> ]

InitSeek ==
    /\ bhop = BhopInit
    /\ hist = HistInit
    /\ player = PlayerInit
    /\ used = UsedInit
    /\ \E obs \in SeekScenes : nav = SeekInit(obs)
    /\ mover = MoverInit({})
    /\ agent = AgentInit(FALSE)
    /\ enemy = EnemyInit(FALSE)
    /\ manager = ManagerInit
    /\ game = GameInit
    /\ route = RouteInit

\* calculateNewPath calls findPath(this.mesh.position, targetPosition).
SeekRequest ==
    /\ nav.op \in { "init", "return" }
    /\ \E startPos \in SeekPoints, endPos \in SeekPoints :
          nav' = [ nav EXCEPT !.op = "findPath", !.requested = TRUE,
                              !.startPos = startPos, !.endPos = endPos,
                              !.from = startPos, !.depth = 1, !.path = << >> ]
    /\ UNCHANGED <<bhop, hist, player, used, mover, agent, enemy, manager, game, route>>

\* findPath(from, endPos) returns [endPos.clone()] on a direct path; every
\* caller appends the result to its path and returns.
SeekReturn ==
    /\ nav.op = "findPath"
    /\ HasDirectPath(nav.from, nav.endPos, nav.obstacles)
    /\ nav' = [ nav EXCEPT !.op = "return", !.path = Append(@, nav.endPos) ]
    /\ UNCHANGED <<bhop, hist, player, used, mover, agent, enemy, manager, game, route>>

\* findPath(from, endPos) with an obstacle in the way: generateSimplifiedPath
\* pushes the waypoint and calls findPath(waypoint, endPos), line 208.
SeekCall ==
    /\ nav.op = "findPath"
    /\ ~HasDirectPath(nav.from, nav.endPos, nav.obstacles)
    /\ LET waypoint == Waypoint(nav.from, nav.endPos, nav.obstacles)
       IN  nav' = [ nav EXCEPT
                      !.from = waypoint,
                      !.depth = Min(@ + 1, MaxSeekDepth),
                      !.path = IF nav.depth < MaxSeekDepth
                               THEN Append(@, waypoint) ELSE @ ]
    /\ UNCHANGED <<bhop, hist, player, used, mover, agent, enemy, manager, game, route>>

NextSeek == SeekRequest \/ SeekReturn \/ SeekCall

\* A call that is running takes its next step.
SpecSeek ==
    InitSeek /\ [][NextSeek]_vars /\ WF_vars(SeekReturn) /\ WF_vars(SeekCall)

\* C35: every findPath call returns: a call in progress leads to a return,
\* whatever the obstacles are.
C35_FindPathReturns ==
    [](nav.op = "findPath" => <>(nav.op = "return"))


(***************************************************************************)
(* The waypoints of the grid findPath of src/main.js.                      *)
(***************************************************************************)
\* The centres of the cells of the grid that no obstacle marks.
WalkableCentres(obs) == { GridToWorld(c) : c \in Cells \ BlockedCells(obs) }

\* C36: a non-empty path returned by findPath starts at the centre of the
\* start cell, ends at the centre of the goal cell and holds only centres of
\* in-bounds walkable cells; the path that reconstructPath builds from the
\* cameFrom links begins at the start cell.
C36_PathOverWalkableCentres ==
    (nav.requested /\ nav.path # << >>) =>
        /\ nav.path[1] = GridToWorld(WorldToGrid(nav.startPos))
        /\ nav.path[Len(nav.path)] = GridToWorld(WorldToGrid(nav.endPos))
        /\ \A i \in 1 .. Len(nav.path) : nav.path[i] \in WalkableCentres(nav.obstacles)
        /\ RawOfRequest # << >>
        /\ RawOfRequest[1] = GridToWorld(WorldToGrid(nav.startPos))

\* A path of three waypoints around an obstacle, asked for from a corner of
\* the start cell.
C36_Witness ==
    /\ nav.requested
    /\ Len(nav.path) >= 3
    /\ Len(RawOfRequest) > Len(nav.path)
    /\ nav.obstacles # { }
    /\ nav.startPos # nav.path[1]
    /\ nav.path[1] # nav.path[2]


(***************************************************************************)
(* The speed of the moves of an enemy (src/unnamed/part_012).  velocity is *)
(* currentVelocity along the line of the move, in thousandths of a unit   *)
(* per second; moved is the horizontal speed of the last move, the         *)
(* distance covered divided by delta, in the same unit.                    *)
(***************************************************************************)
MaxPaces == 3

\* Line 23 of the constructor: acceleration.
ENEMY_ACCELERATION == 25

\* A speed kept in SpeedUnit-ths, in thousandths.
MilliSpeed(s) == s \div (SpeedUnit \div 1000)

\* Difficulty levels a manager can be at when it creates an enemy, between
\* 1.0 and maxDifficultyLevel.
PaceLevels == { LevelUnit, (LevelUnit * 3) \div 2 }

\* Seconds of a frame after the clamp of update, line 140, in ms.
PaceFrameTimes == { 20, 100 }

PaceEnemy(m, type) ==
    CreateEnemy(m, type) @@ [ velocity |-> 0, moved |-> 0, paces |-> 0 ]

\* moveAlongPath, lines 551-575 and 617-682: the velocity is drawn towards
\* direction * maxSpeed; the move is made if the new position is clear, else
\* avoidObstacle takes the first clear attempt (side: the velocity becomes the
\* attempt's, at most maxSpeed) or none (blocked).
PaceAlongPath(a, dir, dt, way) ==
    LET target == dir * MilliSpeed(a.maxSpeed)
        drawn == a.velocity
                   + ((target - a.velocity) * dt) \div (1000 \div ENEMY_ACCELERATION)
    IN  IF way = "clear" THEN [ a EXCEPT !.velocity = drawn, !.moved = Abs(drawn) ]
        ELSE IF way = "side"
        THEN [ a EXCEPT !.velocity = MilliSpeed(a.maxSpeed),
                        !.moved = MilliSpeed(a.maxSpeed) ]
        ELSE [ a EXCEPT !.velocity = (drawn * 8) \div 10, !.moved = 0 ]

\* executeIdleBehavior, lines 370-375.
PaceIdle(a) ==
    LET slowed == (a.velocity * 95) \div 100
    IN  [ a EXCEPT !.velocity = slowed, !.moved = Abs(slowed) ]

\* executeStuckBehavior, lines 457-466.
PaceStuck(a, dir, way) ==
    IF way = "clear"
    THEN [ a EXCEPT !.velocity = (dir * MilliSpeed(a.maxSpeed) * 12) \div 10,
                    !.moved = (MilliSpeed(a.maxSpeed) * 12) \div 10 ]
    ELSE [ a EXCEPT !.moved = 0 ]

\* The behaviour of state st in update, lines 152-168; hasPath says that
\* currentPath is not empty.
PaceBehaviour(a, st, playerSpeed, hasPath, dir, dt, way) ==
    IF st = "IDLE" THEN PaceIdle(a)
    ELSE IF st = "STUCK" THEN PaceStuck(a, dir, way)
    ELSE LET chased == IF st = "CHASE" THEN ExecuteChaseBehavior(a, playerSpeed) ELSE a
         IN  IF hasPath THEN PaceAlongPath(chased, dir, dt, way)
             ELSE [ chased EXCEPT !.moved = 0 ]

InitPace ==
    /\ bhop = BhopInit
    /\ hist = HistInit
    /\ player = PlayerInit
    /\ used = UsedInit
    /\ nav = NavIdle({})
    /\ mover = MoverInit({})
    /\ agent = AgentInit(FALSE)
    /\ enemy = EnemyInit(FALSE)
    /\ \E level \in PaceLevels :
          manager = [ ManagerInit EXCEPT !.difficultyLevel = level ]
    /\ game = GameInit
    /\ route = RouteInit

\* EntityManager.createEnemy.
PaceSpawn ==
    /\ ~agent.live
    /\ \E type \in EnemyTypes : agent' = PaceEnemy(manager, type)
    /\ UNCHANGED <<bhop, hist, player, used, nav, mover, enemy, manager, game, route>>

\* Enemy.update: the state machine leaves the enemy in state st, whose
\* behaviour runs.
PaceUpdate ==
    /\ agent.live
    /\ agent.paces < MaxPaces
    /\ \E st \in RouteStates, ps \in ChasePlayerSpeeds, hasPath \in BOOLEAN,
          dir \in { -1, 1 }, dt \in PaceFrameTimes,
          way \in { "clear", "side", "blocked" } :
          agent' = [ PaceBehaviour(agent, st, ps, hasPath, dir, dt, way)
                       EXCEPT !.op = "update", !.entry = agent.state, !.state = st,
                              !.playerSpeed = ps, !.paces = @ + 1 ]
    /\ UNCHANGED <<bhop, hist, player, used, nav, mover, enemy, manager, game, route>>

NextPace == PaceSpawn \/ PaceUpdate

SpecPace == InitPace /\ [][NextPace]_vars

\* C37: the horizontal speed of every move of an enemy is at most
\* maxPossibleSpeed.
C37_MovesWithinMaxPossibleSpeed ==
    agent.live => agent.moved <= maxPossibleSpeed * 1000


(***************************************************************************)
(* The horizontal moves of an enemy among obstacles (src/unnamed/part_012, *)
(* moveAlongPath, avoidObstacle, executeIdleBehavior, executeStuckBehavior)*)
(* Positions are in hundredths of a unit, velocities in hundredths per     *)
(* second, times in ms.  Directions are along the axes.  cleared holds the *)
(* positions for which checkObstacleCollision returned false in the last   *)
(* update, from the position before it.                                    *)
(***************************************************************************)
MaxGuardSteps == 3

\* WIDTH / 2, lines 18 and 569.
ENEMY_RADIUS == 75

\* maxSpeed of a standard enemy at difficulty 1.0 chasing a player at rest.
GuardSpeed == ENEMY_BASE_SPEED * 100

GuardDirections == { <<1, 0>>, <<-1, 0>>, <<0, 1>>, <<0, -1>> }
GuardFrameTimes == { 20, 100 }
GuardStarts == { <<0, 0>>, <<-100, 0>> }
GuardScenes == { { Box(200, -200, 400, 400) } }

\* CollisionUtils.checkObstacleCollision (src/unnamed/part_006, lines 16-37):
\* Box3.intersectsSphere, the box at the height of the sphere's centre.
CheckObstacleCollision(obs, position, radius) ==
    \E box \in obs :
        LET cx == Max(box.x0, Min(position[1], box.x1))
            cz == Max(box.z0, Min(position[2], box.z1))
        IN  (cx - position[1]) * (cx - position[1])
              + (cz - position[2]) * (cz - position[2]) <= radius * radius

\* position + velocity * delta.
Displaced(position, velocity, dt) ==
    << position[1] + (velocity[1] * dt) \div 1000,
       position[2] + (velocity[2] * dt) \div 1000 >>

\* avoidObstacle, lines 624-661: the six attempts, in order.  Each mixes the
\* side direction (weight side, in tenths) with the forward direction.
AttemptPositions(a, direction, dt) ==
    LET left == << 0 - direction[2], direction[1] >>
        right == << direction[2], 0 - direction[1] >>
        attempt(sideDir, side, forward) ==
            Displaced(a.pos,
                      << ((sideDir[1] * side + direction[1] * forward) * a.maxSpeed) \div 10,
                         ((sideDir[2] * side + direction[2] * forward) * a.maxSpeed) \div 10 >>,
                      dt)
    IN  << attempt(left, 8, 2), attempt(right, 8, 2), attempt(left, 5, 5),
           attempt(right, 5, 5), attempt(left, 10, 0), attempt(right, 10, 0) >>

\* avoidObstacle: the first clear attempt is taken; the velocity becomes the
\* displacement over delta.  With none clear the velocity is scaled by 0.8.
AvoidObstacle(a, obs, direction, dt) ==
    LET attempts == AttemptPositions(a, direction, dt)
        clear == { i \in 1 .. Len(attempts) :
                     ~CheckObstacleCollision(obs, attempts[i], ENEMY_RADIUS) }
        first == CHOOSE i \in clear : \A j \in clear : i <= j
    IN  IF clear # { }
        THEN [ a EXCEPT !.velocity = << ((attempts[first][1] - a.pos[1]) * 1000) \div dt,
                                        ((attempts[first][2] - a.pos[2]) * 1000) \div dt >>,
                        !.pos = attempts[first],
                        !.cleared = { attempts[i] : i \in clear } ]
        ELSE [ a EXCEPT !.velocity = << (@[1] * 8) \div 10, (@[2] * 8) \div 10 >>,
                        !.cleared = { } ]

\* moveAlongPath, lines 545-575, towards a target point in direction.
GuardAlongPath(a, obs, direction, dt) ==
    LET drawn == << a.velocity[1]
                      + ((direction[1] * a.maxSpeed - a.velocity[1]) * dt) \div (1000 \div ENEMY_ACCELERATION),
                    a.velocity[2]
                      + ((direction[2] * a.maxSpeed - a.velocity[2]) * dt) \div (1000 \div ENEMY_ACCELERATION) >>
        newPosition == Displaced(a.pos, drawn, dt)
        pulled == [ a EXCEPT !.velocity = drawn ]
    IN  IF ~CheckObstacleCollision(obs, newPosition, ENEMY_RADIUS)
        THEN [ pulled EXCEPT !.pos = newPosition, !.cleared = { newPosition } ]
        ELSE AvoidObstacle(pulled, obs, direction, dt)

\* executeIdleBehavior, lines 370-371: the velocity is scaled by 0.95.
IdleVelocity(v) == << (v[1] * 95) \div 100, (v[2] * 95) \div 100 >>

\* executeIdleBehavior, lines 370-375: the remaining velocity is applied.
GuardIdle(a, dt) ==
    [ a EXCEPT !.velocity = IdleVelocity(a.velocity),
               !.pos = Displaced(a.pos, IdleVelocity(a.velocity), dt),
               !.cleared = { } ]

\* executeStuckBehavior, lines 439-467: the test is made maxSpeed * 1.5 *
\* delta ahead, the move with maxSpeed * 1.2.
GuardStuck(a, obs, direction, dt) ==
    LET newPosition == Displaced(a.pos, << (direction[1] * a.maxSpeed * 15) \div 10,
                                           (direction[2] * a.maxSpeed * 15) \div 10 >>, dt)
        escape == << (direction[1] * a.maxSpeed * 12) \div 10,
                     (direction[2] * a.maxSpeed * 12) \div 10 >>
    IN  IF ~CheckObstacleCollision(obs, newPosition, ENEMY_RADIUS)
        THEN [ a EXCEPT !.velocity = escape, !.pos = Displaced(a.pos, escape, dt),
                        !.cleared = { newPosition } ]
        ELSE [ a EXCEPT !.cleared = { } ]

GuardEnemy(start) ==
    AgentInit(TRUE) @@
      [ pos |-> start, from |-> start, velocity |-> <<0, 0>>, maxSpeed |-> GuardSpeed,
        cleared |-> { }, steps |-> 0 ]

InitGuard ==
    /\ bhop = BhopInit
    /\ hist = HistInit
    /\ player = PlayerInit
    /\ used = UsedInit
    /\ \E obs \in GuardScenes : nav = NavIdle(obs)
    /\ mover = MoverInit({})
    /\ \E start \in GuardStarts : agent = GuardEnemy(start)
    /\ enemy = EnemyInit(FALSE)
    /\ manager = ManagerInit
    /\ game = GameInit
    /\ route = RouteInit

\* Enemy.update in IDLE.
GuardIdleUpdate ==
    /\ agent.steps < MaxGuardSteps
    /\ \E dt \in GuardFrameTimes :
          agent' = [ GuardIdle(agent, dt) EXCEPT
                       !.op = "update", !.state = "IDLE", !.from = agent.pos,
                       !.steps = @ + 1 ]
    /\ UNCHANGED <<bhop, hist, player, used, nav, mover, enemy, manager, game, route>>

\* Enemy.update in CHASE or FLANK with a path: moveAlongPath.
GuardPathUpdate ==
    /\ agent.steps < MaxGuardSteps
    /\ \E dt \in GuardFrameTimes, direction \in GuardDirections,
          st \in { "CHASE", "FLANK" } :
          agent' = [ GuardAlongPath(agent, nav.obstacles, direction, dt) EXCEPT
                       !.op = "update", !.state = st, !.from = agent.pos,
                       !.steps = @ + 1 ]
    /\ UNCHANGED <<bhop, hist, player, used, nav, mover, enemy, manager, game, route>>

\* Enemy.update in STUCK.
GuardStuckUpdate ==
    /\ agent.steps < MaxGuardSteps
    /\ \E dt \in GuardFrameTimes, direction \in GuardDirections :
          agent' = [ GuardStuck(agent, nav.obstacles, direction, dt) EXCEPT
                       !.op = "update", !.state = "STUCK", !.from = agent.pos,
                       !.steps = @ + 1 ]
    /\ UNCHANGED <<bhop, hist, player, used, nav, mover, enemy, manager, game, route>>

NextGuard == GuardIdleUpdate \/ GuardPathUpdate \/ GuardStuckUpdate

SpecGuard == InitGuard /\ [][NextGuard]_vars

\* C38: every horizontal move of an enemy ends at a position that the
\* obstacle test found clear in that update, and an enemy that starts clear
\* of the obstacles never overlaps one.
C38_MovesEndWhereTestedClear ==
    /\ agent.pos # agent.from => agent.pos \in agent.cleared
    /\ ~CheckObstacleCollision(nav.obstacles, agent.pos, ENEMY_RADIUS)


(***************************************************************************)
(* The stuck check of updateEnemies in src/main.js (lines 1443-1498) and   *)
(* teleportEnemy (lines 1965-2053), for one enemy.  now is Date.now() at   *)
(* the last frame, in ms; positions are in hundredths along a line.        *)
(* stillFor is a history variable: the time since the first of the         *)
(* consecutive stuck checks that found the enemy within 0.1 of lastMovePos *)
(* (0 at that check, and when the last check found it further away).       *)
(***************************************************************************)
ENEMY_TELEPORT_COOLDOWN == 10000
ENEMY_MAX_STUCK_TIME == 3000
ENEMY_STUN_DURATION == 1500

\* teleportEnemy, line 1968: the teleport animation lasts 1000 ms.
TELEPORT_DELAY == 1000

\* "moveDistance < 0.1", line 1484, in hundredths.
STUCK_MOVE_DISTANCE == 10

\* The time followed after the first frame.
MaxStuckSpan == 6000

StuckFrameTimes == { 500, 1000 }

\* What the rest of the update does to the position: nothing, a creep of
\* 0.05, a step of 0.5.
StuckSteps == { 0, 5, 50 }

\* Date.now() at the first frame is far above the cooldown.
FirstNow == ENEMY_TELEPORT_COOLDOWN + 1

\* createEnemy, lines 1326-1333.
StuckInit ==
    [ stunned |-> FALSE, stunnedUntil |-> 0, teleporting |-> FALSE,
      teleportTime |-> 0, lastTeleport |-> 0, position |-> 0, lastMovePos |-> 0,
      stuckTime |-> 0, stuckTimeStart |-> 0,
      now |-> FirstNow, op |-> "init", stillFor |-> 0, wasStill |-> FALSE ]

\* teleportEnemy(enemy, playerPosition): to is the position found.
TeleportEnemy(e, now, to) ==
    [ e EXCEPT !.teleporting = TRUE, !.lastTeleport = now,
               !.teleportTime = now + TELEPORT_DELAY,
               !.position = to, !.lastMovePos = to, !.op = "teleport" ]

\* Lines 1483-1498: the stuck check at time now.
StuckCheck(e, now) ==
    IF Abs(e.position - e.lastMovePos) < STUCK_MOVE_DISTANCE
    THEN LET started == IF e.stuckTime = 0 THEN now ELSE e.stuckTimeStart
         IN  [ e EXCEPT !.stuckTimeStart = started, !.stuckTime = now - started ]
    ELSE [ e EXCEPT !.stuckTime = 0, !.lastMovePos = e.position ]

\* Line 1491.
TeleportDue(e, now) ==
    /\ Abs(e.position - e.lastMovePos) < STUCK_MOVE_DISTANCE
    /\ e.stuckTime > ENEMY_MAX_STUCK_TIME
    /\ now - e.lastTeleport > ENEMY_TELEPORT_COOLDOWN

\* The history of the check at this frame, dt after the last.
StillFor(e, dt) ==
    IF Abs(e.position - e.lastMovePos) < STUCK_MOVE_DISTANCE
    THEN IF e.wasStill THEN e.stillFor + dt ELSE 0
    ELSE 0

\* The body of enemies.forEach for one enemy, dt after the last frame: step
\* and stun are what the movement code after the check does (lines 1500 on).
StuckUpdated(e, dt, step, stun, to) ==
    LET now == e.now + dt
        timed == [ e EXCEPT !.now = now ]
        awake == IF e.stunned /\ now > e.stunnedUntil
                 THEN [ timed EXCEPT !.stunned = FALSE ] ELSE timed
        checked == StuckCheck(awake, now)
        seen == [ checked EXCEPT
                    !.stillFor = StillFor(awake, dt),
                    !.wasStill = Abs(awake.position - awake.lastMovePos)
                                     < STUCK_MOVE_DISTANCE ]
    IN  IF awake.stunned THEN [ awake EXCEPT !.op = "stunned", !.wasStill = FALSE,
                                              !.stillFor = 0 ]
        ELSE IF awake.teleporting
        THEN IF now > awake.teleportTime
             THEN [ awake EXCEPT !.teleporting = FALSE, !.lastMovePos = awake.position,
                                 !.stuckTime = 0, !.op = "arrived",
                                 !.wasStill = FALSE, !.stillFor = 0 ]
             ELSE [ awake EXCEPT !.op = "teleporting", !.wasStill = FALSE,
                                 !.stillFor = 0 ]
        ELSE IF TeleportDue(checked, now) THEN TeleportEnemy(seen, now, to)
        ELSE [ seen EXCEPT !.op = "update",
                           !.position = @ + step,
                           !.stunned = stun,
                           !.stunnedUntil = IF stun THEN now + ENEMY_STUN_DURATION
                                            ELSE @ ]

InitStuck ==
    /\ bhop = BhopInit
    /\ hist = HistInit
    /\ player = PlayerInit
    /\ used = UsedInit
    /\ nav = NavIdle({})
    /\ mover = MoverInit({})
    /\ agent = AgentInit(FALSE)
    /\ enemy = StuckInit
    /\ manager = ManagerInit
    /\ game = GameInit
    /\ route = RouteInit

\* updateEnemies(delta) for the enemy.
StuckFrame ==
    /\ enemy.now < FirstNow + MaxStuckSpan
    /\ \E dt \in StuckFrameTimes, step \in StuckSteps, stun \in BOOLEAN :
          /\ stun => step = 0
          /\ enemy' = StuckUpdated(enemy, dt, step, stun, 1000)
    /\ UNCHANGED <<bhop, hist, player, used, nav, mover, agent, manager, game, route>>

NextStuck == StuckFrame

SpecStuck == InitStuck /\ [][NextStuck]_vars

\* C39: an update that finds the enemy neither stunned nor teleporting,
\* within 0.1 of its last recorded position for more than
\* ENEMY_MAX_STUCK_TIME, with the teleport cooldown over, teleports it.
C39_StuckEnemyIsTeleported ==
    [][ ( /\ enemy'.op \in { "update", "teleport" }
          /\ enemy'.stillFor > ENEMY_MAX_STUCK_TIME
          /\ enemy'.now - enemy.lastTeleport > ENEMY_TELEPORT_COOLDOWN )
            => enemy'.op = "teleport" ]_vars


\* C40: in every state of an enemy the path index lies between 0 and the
\* length of its path.
C40_IndexWithinPath ==
    /\ 0 <= route.currentPathIndex
    /\ route.currentPathIndex <= Len(route.currentPath)

====
